---- MODULE Spec2Model ----
(***************************************************************************)
(* YAIN music-recommendation backend: the memory filter, the intent        *)
(* classifier and the /chat composer, modelled from backend/app.py and     *)
(* backend/services/*.py.  Python strings are TLA+ strings; TLC evaluates  *)
(* Len, \o, SubSeq, Head and Tail on them, so the regular expressions and  *)
(* the substring tests of the code are computed character by character.    *)
(***************************************************************************)
EXTENDS Integers, Sequences, FiniteSets, TLC

(***************************************************************************)
(* Bounds of the model.                                                    *)
(***************************************************************************)
MaxCand == 6        \* longest candidate list given to the memory filter
MaxHist == 2        \* longest history given to the memory filter
MaxMemory == 1      \* longest history sent with a chat request
MaxFound == 2       \* most tracks the searches of one retrieval bring together
MaxArtists == 2     \* most artists the artist search answers with
MaxPick == 2        \* how far into available_songs the fallback text picks its song
MaxQueries == 3     \* how many of the 19 priority_queries the trending refresh fans out
EnoughSongs == 2    \* the early exit of the refresh (150 songs of 19 x 15), at that scale
MaxTicks == 3       \* how many quarters of an hour the clock of the search cache runs

VARIABLES
    f_pc,           \* memory-filter harness: "ready" | "filtered" | "refiltered"
    f_trending,     \* the caller's candidate list object (trending_songs)
    f_suggested,    \* the caller's history list object (suggested_songs)
    f_in,           \* the two lists as they were when the call was made
    f_out,          \* what the call returned
    f_again,        \* what the filter returned when called on its own result
    c_pc,           \* classifier harness: "ready" | "analyzed"
    c_message,      \* user_message
    c_spotify,      \* the artist search behind check_if_artist_exists
    c_request,      \* the request analyze_user_request returned
    h_pc,           \* chat(): the statement the request has reached
    h_data,         \* the body of the request (None when the body is null)
    h_spotify,      \* what Spotify answers
    h_youtube,      \* what YouTube answers
    h_message,      \* user_message
    h_suggested,    \* suggested_songs
    h_request,      \* user_request
    h_available,    \* available_songs
    h_original_count,
    h_filtered_count,
    h_ai_text,
    h_song_query,
    h_spotify_data,
    h_youtube_data,
    h_actual,       \* actual_song_for_memory
    h_memory_check, \* None, or the status of memory_check
    h_alternative,  \* the position in available_songs the alternatives loop is at
    h_tried,        \* the alternatives looked up so far
    h_primary,      \* the query and the results of the first lookup
    h_search_cache, \* spotify_service.search_cache
    h_trending_cache,
    h_calls,        \* the calls chat() has made to the services, in order
    h_error,        \* the exception raised inside the try block, or None
    h_response,     \* the envelope returned
    p_descriptor,   \* parser harness: the string parsed and how it was written
    p_parts,        \* what extract_song_parts returned for it
    p_pair,         \* what extract_song_and_artist returned for it
    a_query,        \* artist lookup harness: the name looked up
    a_artists,      \* results['artists']['items']
    a_best,         \* NoLookup, or best_artist and what check_if_artist_exists returned
    t_pc,           \* trending refresh: "idle" | "submit" | "collect" | "shutdown" | "returned"
    t_answer,       \* what spotify.search does for each priority query
    t_future,       \* the state of each future: "new" | "queued" | "running" | "done"
    t_pending,      \* the futures as_completed has not yielded yet
    t_songs,        \* trending_songs
    t_ret,          \* what the refresh returned
    s_catalog,      \* search cache harness: what Spotify answers at the moment
    s_now,          \* time.time(), in seconds
    s_cache,        \* spotify_service.search_cache: key -> (result, time)
    s_last          \* the last lookup: its query, its result, the result without a cache

fvars == <<f_pc, f_trending, f_suggested, f_in, f_out, f_again>>
cvars == <<c_pc, c_message, c_spotify, c_request>>
pvars == <<p_descriptor, p_parts, p_pair>>
avars == <<a_query, a_artists, a_best>>
tvars == <<t_pc, t_answer, t_future, t_pending, t_songs, t_ret>>
svars == <<s_catalog, s_now, s_cache, s_last>>

(***************************************************************************)
(* Python's str and re primitives.                                         *)
(***************************************************************************)
None == "None"      \* Python's None (no descriptor of the model is "None")

Chr(s, i) == SubSeq(s, i, i)

UpperCase == "ABCDEFGHIJKLMNOPQRSTUVWXYZ"
LowerCase == "abcdefghijklmnopqrstuvwxyz"

LowerOf == [c \in {Chr(UpperCase, i) : i \in 1..Len(UpperCase)} |->
              Chr(LowerCase, CHOOSE i \in 1..Len(UpperCase) : Chr(UpperCase, i) = c)]
UpperOf == [c \in {Chr(LowerCase, i) : i \in 1..Len(LowerCase)} |->
              Chr(UpperCase, CHOOSE i \in 1..Len(LowerCase) : Chr(LowerCase, i) = c)]

IsUpper(c) == c \in DOMAIN LowerOf
IsLower(c) == c \in DOMAIN UpperOf
IsAlpha(c) == IsUpper(c) \/ IsLower(c)
IsDigit(c) == c \in {"0", "1", "2", "3", "4", "5", "6", "7", "8", "9"}
IsSpace(c) == c \in {" ", "\n", "\t"}                \* \s
IsQuote(c) == c \in {"'", "\""}                      \* ['\"]

\* str.lower(), one half of the string after the other
RECURSIVE Lower(_)
Lower(s) == IF Len(s) = 0 THEN ""
            ELSE IF Len(s) = 1 THEN (IF IsUpper(s) THEN LowerOf[s] ELSE s)
            ELSE Lower(SubSeq(s, 1, Len(s) \div 2)) \o Lower(SubSeq(s, Len(s) \div 2 + 1, Len(s)))

\* str.lstrip(), str.rstrip(), str.strip()
RECURSIVE LStrip(_)
LStrip(s) == IF s # "" /\ IsSpace(Head(s)) THEN LStrip(Tail(s)) ELSE s
RECURSIVE RStrip(_)
RStrip(s) == IF s # "" /\ IsSpace(Chr(s, Len(s))) THEN RStrip(SubSeq(s, 1, Len(s) - 1)) ELSE s
Strip(s) == RStrip(LStrip(s))

\* a in b
IsSubstr(a, b) == \E i \in 1..(Len(b) - Len(a) + 1) : SubSeq(b, i, i + Len(a) - 1) = a

\* set(s.split()): the whitespace-separated words of s (cur is the word being read)
RECURSIVE SplitWords(_, _)
SplitWords(s, cur) ==
    IF s = "" THEN (IF cur = "" THEN {} ELSE {cur})
    ELSE IF IsSpace(Head(s))
         THEN (IF cur = "" THEN {} ELSE {cur}) \cup SplitWords(Tail(s), "")
         ELSE SplitWords(Tail(s), cur \o Head(s))
WordSet(s) == SplitWords(s, "")

\* re.sub(r"['\"]", "", s)
RECURSIVE RemoveQuotes(_)
RemoveQuotes(s) == IF s = "" THEN ""
                   ELSE (IF IsQuote(Head(s)) THEN "" ELSE Head(s)) \o RemoveQuotes(Tail(s))

\* re.sub(r'\s+', ' ', s)
RECURSIVE CollapseSpaces(_)
CollapseSpaces(s) ==
    IF s = "" THEN ""
    ELSE IF IsSpace(Head(s))
         THEN " " \o CollapseSpaces(LStrip(s))
         ELSE Head(s) \o CollapseSpaces(Tail(s))

NoQuoteIn(s, i, j) == \A k \in i..j : ~IsQuote(Chr(s, k))

\* " by " under re.IGNORECASE, at positions k..k+3 of s, with one more character after it
ByAt(s, k) == /\ k >= 1
              /\ k + 4 <= Len(s)
              /\ Lower(SubSeq(s, k, k + 3)) = " by "
              /\ Chr(s, k + 4) # "\n"

\* the text (.+) takes: up to the end of the line
RECURSIVE RestOfLine(_)
RestOfLine(s) == IF s = "" \/ Head(s) = "\n" THEN "" ELSE Head(s) \o RestOfLine(Tail(s))

\* f with every value computed: a table the actions read
Tabulate(f) == f @@ <<>>

Min(S) == CHOOSE m \in {CHOOSE x \in T : \A y \in T : x <= y : T \in {S}} : TRUE
Max(S) == CHOOSE m \in {CHOOSE x \in T : \A y \in T : x >= y : T \in {S}} : TRUE

\* re.search(r"['\"]([^'\"]+)['\"] by (.+)", s, re.IGNORECASE): <<group 1, group 2>> or <<>>
\* ([^'\"]+ stops at the first quote after the opening one; the leftmost match wins)
QuotedEnd(s, i) == {j \in (i + 2)..Len(s) : IsQuote(Chr(s, j))}
QuotedOk(s, i, J) == J # {} /\ NoQuoteIn(s, i + 1, Min(J) - 1) /\ ByAt(s, Min(J) + 1)
QuotedStarts(s) == {i \in 1..Len(s) : IsQuote(Chr(s, i)) /\ QuotedOk(s, i, QuotedEnd(s, i))}
QuotedGroups(s, i, j) == <<SubSeq(s, i + 1, j - 1), RestOfLine(SubSeq(s, j + 5, Len(s)))>>
QuotedAt(s, i) == QuotedGroups(s, i, Min(QuotedEnd(s, i)))
QuotedFrom(s, I) == IF I = {} THEN <<>> ELSE QuotedAt(s, Min(I))
SearchQuotedBy(s) == QuotedFrom(s, QuotedStarts(s))

\* re.search(r"([^'\"]+) by (.+)", s, re.IGNORECASE): <<group 1, group 2>> or <<>>
\* (the leftmost start wins, and from it the greedy [^'\"]+ takes the last " by ")
PlainEnds(s, i) == {k \in i..Len(s) : NoQuoteIn(s, i, k) /\ ByAt(s, k + 1)}
PlainStarts(s) == {i \in 1..Len(s) : PlainEnds(s, i) # {}}
PlainGroups(s, i, k) == <<SubSeq(s, i, k), RestOfLine(SubSeq(s, k + 5, Len(s)))>>
PlainAt(s, i) == PlainGroups(s, i, Max(PlainEnds(s, i)))
PlainFrom(s, I) == IF I = {} THEN <<>> ELSE PlainAt(s, Min(I))
SearchPlainBy(s) == PlainFrom(s, PlainStarts(s))

(***************************************************************************)
(* The descriptors the model draws its inputs from.                        *)
(***************************************************************************)
FilterCandidates == {"'Love Story' by Ann", "'Zed' by Cy", "random text"}
FilterHistory    == {"'love' by Bob",        \* title inside 'Love Story'
                     "love song by ANN",     \* Ann again, sharing the word love
                     "Random  Text"}         \* equal to "random text" once normalized
UntitledHistory  == "Love Story"            \* a title alone, no artist

NoneData == [none |-> TRUE]      \* None where the code otherwise holds a dict

Descriptor(track) == "'" \o track.name \o "' by " \o track.artist

love_story   == [name |-> "Love Story", artist |-> "Ann", popularity |-> 80,
                 preview_url |-> TRUE, explicit |-> FALSE]
zed          == [name |-> "Zed", artist |-> "Cy", popularity |-> 60,
                 preview_url |-> FALSE, explicit |-> TRUE]
my_love_song == [name |-> "My Love Song", artist |-> "Ann", popularity |-> 75,
                 preview_url |-> FALSE, explicit |-> FALSE]
blue         == [name |-> "Blue", artist |-> "Dee", popularity |-> 40,
                 preview_url |-> FALSE, explicit |-> FALSE]

Tracks == {love_story, zed, my_love_song, blue}

official_video == [title |-> "Ann - Love Story (Official Video)", channel |-> "AnnVEVO"]

VideoDescriptor(video) == "'" \o video.title \o "' by " \o video.channel

get_diverse_fallback_songs ==
    <<"'Anti-Hero' by Taylor Swift", "'God's Plan' by Drake", "'Bad Guy' by Billie Eilish",
      "'Blinding Lights' by The Weeknd", "'Levitating' by Dua Lipa",
      "'As It Was' by Harry Styles", "'Heat Waves' by Glass Animals",
      "'Good 4 U' by Olivia Rodrigo", "'Stay' by The Kid LAROI", "'Jai Ho' by A.R. Rahman",
      "'Tum Hi Ho' by Arijit Singh", "'Dynamite' by BTS", "'Despacito' by Luis Fonsi",
      "'Ye' by Burna Boy", "'Essence' by Wizkid", "'Motion Sickness' by Phoebe Bridgers",
      "'The Less I Know The Better' by Tame Impala", "'Bohemian Rhapsody' by Queen",
      "'Billie Jean' by Michael Jackson", "'Smells Like Teen Spirit' by Nirvana">>

Range(f) == {f[i] : i \in DOMAIN f}

TrackSongs == {Descriptor(track) : track \in Tracks}
ChatHistory == {Descriptor(love_story), Descriptor(my_love_song)}

KnownSongs ==
    FilterCandidates \cup FilterHistory \cup {UntitledHistory} \cup TrackSongs \cup Range(get_diverse_fallback_songs)
        \cup {VideoDescriptor(official_video)}

(***************************************************************************)
(* services/memory_service.py                                              *)
(***************************************************************************)
normalize_song_title(song) == Strip(CollapseSpaces(RemoveQuotes(Lower(song))))

\* <<song_name, artist_name>>, both lower-cased; <<song.lower(), "">> without a match
LowerStripPair(m) == <<Lower(Strip(m[1])), Lower(Strip(m[2]))>>
PartsFrom(song, m1, m2) ==
    IF m1 # <<>> THEN LowerStripPair(m1)
    ELSE IF m2 # <<>> THEN LowerStripPair(m2)
    ELSE <<Lower(song), "">>
\* extract_song_parts returning the parts without .lower()
StripPair(m) == <<Strip(m[1]), Strip(m[2])>>
extract_parts_as_written(song) ==
    IF SearchQuotedBy(song) # <<>> THEN StripPair(SearchQuotedBy(song))
    ELSE IF SearchPlainBy(song) # <<>> THEN StripPair(SearchPlainBy(song))
    ELSE <<song, "">>
extract_song_parts(song) == PartsFrom(song, SearchQuotedBy(song), SearchPlainBy(song))

\* The entry the filter pre-processes for a song (suggested_normalized), and the
\* same fields for a candidate: parsed name and artist, and the normalized string.
EntryOf(song, parts, normalized) ==
    [original |-> song, song_name |-> parts[1], artist_name |-> parts[2],
     full_normalized |-> normalized, name_words |-> WordSet(parts[1])]
song_entry(song) == EntryOf(song, extract_song_parts(song), normalize_song_title(song))

\* Entries of the strings the model uses (KnownSongs), computed once.
EntryTable == Tabulate([song \in KnownSongs |-> song_entry(song)])
Entry(song) == EntryTable[song]

\* Strategy 1: full string exact match
ExactMatch(t, s) == t.full_normalized = s.full_normalized

\* Strategy 2: song name substring match
SongNameMatch(t, s) ==
    /\ t.song_name # "" /\ s.song_name # ""
    /\ (IsSubstr(t.song_name, s.song_name) \/ IsSubstr(s.song_name, t.song_name))

\* Strategy 3: same artist with similar song names
SameArtistMatch(t, s) ==
    /\ t.artist_name # "" /\ s.artist_name # ""
    /\ t.artist_name = s.artist_name
    /\ t.song_name # "" /\ s.song_name # ""
    /\ Cardinality(t.name_words \cap s.name_words) >= 1

\* (mutant of is_duplicate: strategy 3 left out)
is_duplicate_without_strategy3(trending_song, suggested_songs) ==
    \E n \in 1..Len(suggested_songs) :
        \/ ExactMatch(Entry(trending_song), Entry(suggested_songs[n]))
        \/ SongNameMatch(Entry(trending_song), Entry(suggested_songs[n]))

\* is_duplicate after the loop over suggested_normalized, for one candidate
is_duplicate(trending_song, suggested_songs) ==
    \E n \in 1..Len(suggested_songs) :
        \/ ExactMatch(Entry(trending_song), Entry(suggested_songs[n]))
        \/ SongNameMatch(Entry(trending_song), Entry(suggested_songs[n]))
        \/ SameArtistMatch(Entry(trending_song), Entry(suggested_songs[n]))

\* (mutant of LastFive: trending_songs[:5])
FirstFive(songs) == SubSeq(songs, 1, IF Len(songs) > 5 THEN 5 ELSE Len(songs))

\* trending_songs[-5:]
LastFive(songs) == SubSeq(songs, IF Len(songs) > 5 THEN Len(songs) - 4 ELSE 1, Len(songs))

\* (mutant of filter_trending_songs: the early return for an empty memory removed)
filter_without_fast_path(trending_songs, suggested_songs) ==
    LET filtered == SelectSeq(trending_songs, LAMBDA t : ~is_duplicate(t, suggested_songs))
        args     == [trending_songs |-> trending_songs, suggested_songs |-> suggested_songs]
    IN  IF Len(trending_songs) = 0
        THEN [raised |-> TRUE, ret |-> <<>>, fallback |-> FALSE, args |-> args]
        ELSE IF Len(filtered) = 0
        THEN [raised |-> FALSE, ret |-> LastFive(trending_songs), fallback |-> TRUE, args |-> args]
        ELSE [raised |-> FALSE, ret |-> filtered, fallback |-> FALSE, args |-> args]

\* (mutant of filter_trending_songs: duplicates removed from trending_songs in place)
filter_in_place(trending_songs, suggested_songs) ==
    LET filtered == SelectSeq(trending_songs, LAMBDA t : ~is_duplicate(t, suggested_songs))
        args     == [trending_songs |-> filtered, suggested_songs |-> suggested_songs]
    IN  IF suggested_songs = <<>>
        THEN [raised |-> FALSE, ret |-> trending_songs, fallback |-> FALSE, args |-> args]
        ELSE IF Len(trending_songs) = 0
        THEN [raised |-> TRUE, ret |-> <<>>, fallback |-> FALSE, args |-> args]
        ELSE IF Len(filtered) = 0
        THEN [raised |-> FALSE, ret |-> LastFive(trending_songs), fallback |-> TRUE, args |-> args]
        ELSE [raised |-> FALSE, ret |-> filtered, fallback |-> FALSE, args |-> args]

\* (mutant of filter_trending_songs: the emergency fallback leaves the first song out)
filter_with_shrinking_fallback(trending_songs, suggested_songs) ==
    LET filtered == SelectSeq(trending_songs, LAMBDA t : ~is_duplicate(t, suggested_songs))
        args     == [trending_songs |-> trending_songs, suggested_songs |-> suggested_songs]
    IN  IF suggested_songs = <<>>
        THEN [raised |-> FALSE, ret |-> trending_songs, fallback |-> FALSE, args |-> args]
        ELSE IF Len(trending_songs) = 0
        THEN [raised |-> TRUE, ret |-> <<>>, fallback |-> FALSE, args |-> args]
        ELSE IF Len(filtered) = 0
        THEN [raised |-> FALSE, ret |-> Tail(LastFive(trending_songs)), fallback |-> TRUE,
              args |-> args]
        ELSE [raised |-> FALSE, ret |-> filtered, fallback |-> FALSE, args |-> args]

\* The call's outcome: raised (an exception left the function), ret (the list
\* returned), fallback (the emergency fallback was taken) and the two argument
\* lists as the call leaves them.
filter_trending_songs(trending_songs, suggested_songs) ==
    LET filtered == SelectSeq(trending_songs, LAMBDA t : ~is_duplicate(t, suggested_songs))
        args     == [trending_songs |-> trending_songs, suggested_songs |-> suggested_songs]
    IN  IF suggested_songs = <<>>
        THEN [raised |-> FALSE, ret |-> trending_songs, fallback |-> FALSE, args |-> args]
        ELSE IF Len(trending_songs) = 0     \* blocked_count / len(trending_songs)
        THEN [raised |-> TRUE, ret |-> <<>>, fallback |-> FALSE, args |-> args]
        ELSE IF Len(filtered) = 0
        THEN [raised |-> FALSE, ret |-> LastFive(trending_songs), fallback |-> TRUE, args |-> args]
        ELSE [raised |-> FALSE, ret |-> filtered, fallback |-> FALSE, args |-> args]

\* memory_check['valid'] of validate_memory_system(suggested_songs, new_song)
validate_memory_system(suggested_songs, new_song) ==
    \/ suggested_songs = <<>>
    \/ new_song = None
    \/ new_song = ""
    \/ \A n \in 1..Len(suggested_songs) :
          LET existing == Entry(suggested_songs[n])
              new      == Entry(new_song)
          IN  ~(/\ existing.song_name # "" /\ new.song_name # ""
                /\ (\/ IsSubstr(existing.song_name, new.song_name)
                    \/ IsSubstr(new.song_name, existing.song_name)))

(***************************************************************************)
(* services/ai_service.py: the intent classifier.                          *)
(* The messages of the model hold no line break, so "." matches every      *)
(* character of them.                                                      *)
(***************************************************************************)
\* any(pattern in s for pattern in W)
AnyIn(W, s) == \E w \in W : IsSubstr(w, s)

\* s.split(): the whitespace-separated words of s, in order
RECURSIVE SplitList(_, _)
SplitList(s, cur) ==
    IF s = "" THEN (IF cur = "" THEN <<>> ELSE <<cur>>)
    ELSE IF IsSpace(Head(s))
         THEN (IF cur = "" THEN <<>> ELSE <<cur>>) \o SplitList(Tail(s), "")
         ELSE SplitList(Tail(s), cur \o Head(s))
Split(s) == SplitList(s, "")

\* s.title(): a letter is upper-cased unless the character before it is a letter
TitleChar(c, first) ==
    IF first THEN (IF IsLower(c) THEN UpperOf[c] ELSE c)
    ELSE (IF IsUpper(c) THEN LowerOf[c] ELSE c)
RECURSIVE TitleFrom(_, _)
TitleFrom(s, i) ==
    IF i > Len(s) THEN ""
    ELSE TitleChar(Chr(s, i), i = 1 \/ ~IsAlpha(Chr(s, IF i = 1 THEN 1 ELSE i - 1)))
             \o TitleFrom(s, i + 1)
Title(s) == TitleFrom(s, 1)

\* the literal w stands at position i of s; s[i] is whitespace
HasAt(s, i, w) == i >= 1 /\ i + Len(w) - 1 <= Len(s) /\ SubSeq(s, i, i + Len(w) - 1) = w
SpaceAt(s, i) == i >= 1 /\ i <= Len(s) /\ IsSpace(Chr(s, i))

\* the first position from i on that holds no whitespace (Len(s) + 1 at the end)
SkipSpaces(s, i) == Min({j \in i..(Len(s) + 1) : ~SpaceAt(s, j)})

\* (?:w1|w2|..)\s+ matched at i: the positions it can end before
AfterWord(s, i, W) ==
    {SkipSpaces(s, i + Len(w)) : w \in {v \in W : HasAt(s, i, v) /\ SpaceAt(s, i + Len(v))}}

\* (.+?)(?:\s|$) after a greedy \s+, stripped: the run of non-whitespace at i
WordStop(s, i) == Min({j \in i..(Len(s) + 1) : j = Len(s) + 1 \/ SpaceAt(s, j)})
WordAt(s, i) == IF i > Len(s) THEN "" ELSE SubSeq(s, i, WordStop(s, i) - 1)

\* \s+by\s+ matches right after position k and leaves a character for the next group
ByStart(s, k) == SkipSpaces(s, k + 1)
ByFollows(s, k, p) == SpaceAt(s, k + 1) /\ HasAt(s, p, "by") /\ SpaceAt(s, p + 2) /\ p + 3 <= Len(s)
ByTail(s, k) == ByFollows(s, k, ByStart(s, k))

\* \s+(?:w1|w2|..)(?:\s|$) matches right after position k
EndsWord(s, p, w) == HasAt(s, p, w) /\ (p + Len(w) = Len(s) + 1 \/ SpaceAt(s, p + Len(w)))
WordFollows(s, k, p, W) == SpaceAt(s, k + 1) /\ \E w \in W : EndsWord(s, p, w)
WordTail(s, k, W) == WordFollows(s, k, ByStart(s, k), W)

\* r'^(.+?)\s+by\s+(.+?)$': <<group 1, group 2>> or <<>>; the lazy group 1 ends at
\* the first " by ", group 2 is the rest (given here with its leading whitespace,
\* which the caller strips)
WholeByGroups(s, k) == <<SubSeq(s, 1, k), SubSeq(s, ByStart(s, k) + 2, Len(s))>>
WholeByFrom(s, K) == IF K = {} THEN <<>> ELSE WholeByGroups(s, Min(K))
SearchWholeBy(s) == WholeByFrom(s, {k \in 1..Len(s) : ByTail(s, k)})

\* r'(?:play|find|search|give me|want|show me)\s+(.+?)\s+by\s+(.+?)(?:\s|$)': the
\* leftmost verb that is followed by a match; group 1 ends at the first " by "
\* after it, group 2 is the word after "by"
song_verbs == {"play", "find", "search", "give me", "want", "show me"}
VerbByEnds(s, g) == {k \in g..Len(s) : ByTail(s, k)}
VerbByGroups(s, g, k) == <<SubSeq(s, g, k), WordAt(s, SkipSpaces(s, ByStart(s, k) + 2))>>
VerbByAt(s, g) == VerbByGroups(s, g, Min(VerbByEnds(s, g)))
VerbByStarts(s) ==
    {i \in 1..Len(s) : \E g \in AfterWord(s, i, song_verbs) : VerbByEnds(s, g) # {}}
VerbByFrom(s, I) ==
    IF I = {} THEN <<>> ELSE VerbByAt(s, CHOOSE g \in AfterWord(s, Min(I), song_verbs) : TRUE)
SearchVerbBy(s) == VerbByFrom(s, VerbByStarts(s))

\* the request dict: the fields the composer reads (genre_hint, which only goes
\* into the prompt, is left out); None stands for an absent key
Request(type, search_terms) ==
    [type |-> type, song_name |-> None, artist_name |-> None, artist_id |-> None,
     search_query |-> None, search_terms |-> search_terms]
NoRequest == Request(None, <<>>)

\* first rule's result if it returned, else the next rule's
OrElse(first, next) == IF first.type # None THEN first ELSE next

profile_patterns ==
    {"what my name", "whats my name", "what's my name", "who am i", "my profile",
     "my spotify", "my music taste", "what do you know about me", "tell me about myself",
     "my genres", "my artists", "my preferences"}

creator_patterns ==
    {"who made you", "who created you", "who built you", "who developed you",
     "who is your creator", "who is your author", "who is your developer",
     "who programmed you", "who designed you", "who coded you", "name your creator",
     "name your author", "who is your maker", "who owns you", "who is behind you",
     "your creator", "your author", "who is your boss", "who is your god",
     "who is your queen"}

\* the body of "if match:" in the loop over specific_song_patterns
SpecificSong(song_name, artist_name) ==
    IF Len(song_name) > 1 /\ Len(artist_name) > 1
    THEN [type |-> "specific_song", song_name |-> Title(song_name),
          artist_name |-> Title(artist_name), artist_id |-> None,
          search_query |-> "'" \o Title(song_name) \o "' by " \o Title(artist_name),
          search_terms |-> <<"'" \o Title(song_name) \o "' by " \o Title(artist_name)>>]
    ELSE NoRequest
SpecificSongFrom(m) == IF m = <<>> THEN NoRequest ELSE SpecificSong(Strip(m[1]), Strip(m[2]))
specific_song_request(message_lower) ==
    OrElse(SpecificSongFrom(SearchWholeBy(message_lower)),
           SpecificSongFrom(SearchVerbBy(message_lower)))

\* check_if_artist_exists: no artist (found is FALSE) or the artist accepted.
\* spotify_client is [client, raises, artists]: whether a client is configured,
\* whether the search raises, and the items the search answers with.
NoArtist == [found |-> FALSE, name |-> None, id |-> None, popularity |-> 0]

\* the score without the boosts for the name
popularity_score(artist, artist_name, query_lower) == artist.popularity

artist_score(artist, artist_name, query_lower) ==
    IF artist_name = query_lower THEN artist.popularity + 100
    ELSE IF IsSubstr(query_lower, artist_name) \/ IsSubstr(artist_name, query_lower)
    THEN artist.popularity + 50
    ELSE artist.popularity

\* one iteration of "for artist in artists"; acc is [best, highest_popularity],
\* best the index of best_artist (0 for None)
ScoreStep(acc, i, score) ==
    IF score > acc.highest_popularity THEN [best |-> i, highest_popularity |-> score] ELSE acc
RECURSIVE best_artist(_, _, _, _)
best_artist(artists, query, i, acc) ==
    IF i > Len(artists) THEN acc
    ELSE CHOOSE r \in {best_artist(artists, query, i + 1, a) :
                         a \in {ScoreStep(acc, i, artist_score(artists[i], Lower(artists[i].name),
                                                               Lower(query)))}} : TRUE

\* check_if_artist_exists returning best_artist whatever its popularity
AcceptAnyArtist(artists, best) ==
    IF best # 0
    THEN [found |-> TRUE, name |-> artists[best].name, id |-> artists[best].id,
          popularity |-> artists[best].popularity]
    ELSE NoArtist

AcceptArtist(artists, best) ==
    IF best # 0 /\ artists[best].popularity > 15
    THEN [found |-> TRUE, name |-> artists[best].name, id |-> artists[best].id,
          popularity |-> artists[best].popularity]
    ELSE NoArtist

check_if_artist_exists(query, spotify_client) ==
    IF ~spotify_client.client THEN NoArtist
    ELSE IF spotify_client.raises THEN NoArtist
    ELSE IF spotify_client.artists = <<>> THEN NoArtist
    ELSE AcceptArtist(spotify_client.artists,
                      best_artist(spotify_client.artists, query, 1,
                                  [best |-> 0, highest_popularity |-> 0]).best)

\* the artist_search request built from an artist found
ArtistSearch(artist_info) ==
    IF artist_info.found
    THEN [type |-> "artist_search", song_name |-> None, artist_name |-> artist_info.name,
          artist_id |-> artist_info.id, search_query |-> None,
          search_terms |-> <<artist_info.name \o " songs", artist_info.name \o " popular",
                             artist_info.name \o " hits">>]
    ELSE NoRequest

\* a pattern made of alternatives separated by \s+ and ending in \s+(.+?)(?:\s|$):
\* the word captured by its leftmost match, None without a match.  Ws is the
\* sequence of the sets of alternatives; anchored says the pattern starts with (?:^|\s).
RECURSIVE SeqEnds(_, _, _)
SeqEnds(s, I, Ws) ==
    IF Ws = <<>> THEN I ELSE SeqEnds(s, UNION {AfterWord(s, i, Head(Ws)) : i \in I}, Tail(Ws))
TokenStart(s, i, anchored) == ~anchored \/ i = 1 \/ SpaceAt(s, i - 1)
SeqStarts(s, Ws, anchored) ==
    {i \in 1..Len(s) : TokenStart(s, i, anchored) /\ SeqEnds(s, {i}, Ws) # {}}
WordAfterFrom(s, Ws, I) ==
    IF I = {} THEN None ELSE WordAt(s, CHOOSE b \in SeqEnds(s, {Min(I)}, Ws) : TRUE)
WordAfter(s, Ws, anchored) == WordAfterFrom(s, Ws, SeqStarts(s, Ws, anchored))

\* r'(?:^|\s)(.+?)\s+(?:w1|w2|..)(?:\s|$)': the stripped text before the first of
\* the words W that stands as a word after position 1, None without a match
TextBeforeFrom(s, K) == IF K = {} THEN None ELSE Strip(SubSeq(s, 1, Min(K)))
TextBefore(s, W) == TextBeforeFrom(s, {k \in 1..Len(s) : WordTail(s, k, W)})

artist_verbs == {"give me", "play", "find", "show me", "want"}
by_from == {"by", "from"}

\* the name each of the five artist_patterns captures, in their order
artist_pattern_names(message_lower) ==
    <<WordAfter(message_lower,
                <<artist_verbs, {"song", "songs", "music", "track", "tracks"}, by_from>>, FALSE),
      WordAfter(message_lower, <<{"song", "songs"}, by_from>>, TRUE),
      TextBefore(message_lower, {"song", "songs"}),
      WordAfter(message_lower, <<{"music", "track", "tracks"}, by_from>>, FALSE),
      TextBefore(message_lower, {"music", "artist", "band"})>>

excluded_words ==
    {"happy", "sad", "chill", "me", "some", "good", "new", "old", "best", "favorite",
     "latest", "popular", "trending", "hot", "cool", "nice", "great", "awesome", "amazing",
     "perfect", "love", "like", "want", "need", "get", "find", "search", "play", "listen",
     "hear", "show", "give", "the", "a", "an", "and", "or", "but", "for", "with", "random",
     "any", "something", "anything"}

\* "Validate artist name criteria"
valid_artist_name(artist_name) ==
    /\ artist_name # None
    /\ Len(artist_name) > 2
    /\ artist_name \notin excluded_words
    /\ ~AnyIn({"songs", "music", "tracks"}, artist_name)
    /\ Len(Split(artist_name)) <= 3

\* the body of "if match:" in the loop over artist_patterns
explicit_artist(artist_name, spotify) ==
    IF valid_artist_name(artist_name)
    THEN ArtistSearch(check_if_artist_exists(artist_name, spotify))
    ELSE NoRequest
RECURSIVE ExplicitFrom(_, _, _)
ExplicitFrom(names, i, spotify) ==
    IF i > Len(names) THEN NoRequest
    ELSE OrElse(explicit_artist(names[i], spotify), ExplicitFrom(names, i + 1, spotify))
explicit_artist_request(message_lower, spotify) ==
    ExplicitFrom(artist_pattern_names(message_lower), 1, spotify)

non_artist_indicators ==
    {"happy", "sad", "angry", "excited", "chill", "relaxed", "stressed", "love", "hate",
     "tired", "energetic", "lonely", "confident",
     "play", "find", "search", "give", "show", "get", "want", "need", "hello", "hi", "hey",
     "thanks", "help", "please",
     "music", "song", "songs", "playlist", "album", "track", "tracks",
     "good", "bad", "best", "worst", "new", "old", "latest", "trending", "popular", "random",
     "any", "some", "something", "anything",
     "rock", "pop", "rap", "jazz", "blues", "country", "electronic", "classical", "folk",
     "metal", "punk", "reggae", "disco",
     "hindi", "spanish", "korean", "japanese", "french", "german", "bollywood", "kpop",
     "latin", "african", "american", "british"}

\* re.search over command_patterns; r'find.*music' is "find" with "music" after it
FindMusic(s) == \E i \in 1..Len(s) : HasAt(s, i, "find") /\ IsSubstr("music", SubSeq(s, i + 4, Len(s)))
CommandPattern(s) ==
    \/ AnyIn({"give me", "play some", "i want", "show me"}, s)
    \/ FindMusic(s)
    \/ AnyIn({"song by", "songs by", "song from", "songs from"}, s)

PotentialArtist(message, words) ==
    /\ ~(Len(words) > 4)
    /\ ~(Len(message) < 2)
    /\ ~(\A n \in 1..Len(words) : words[n] \in non_artist_indicators)
    /\ ~CommandPattern(message)
PotentialArtistIn(message) == PotentialArtist(message, Split(message))
is_potential_artist_query(message) == PotentialArtistIn(Lower(Strip(message)))

\* the dynamic detection taking the message for an artist without an answer
\* from the artist search
dynamic_artist_unverified(user_message, spotify) ==
    IF is_potential_artist_query(user_message)
    THEN ArtistSearch([found |-> TRUE, name |-> Strip(user_message), id |-> None,
                       popularity |-> 0])
    ELSE NoRequest

dynamic_artist_request(user_message, spotify) ==
    IF is_potential_artist_query(user_message)
    THEN ArtistSearch(check_if_artist_exists(Strip(user_message), spotify))
    ELSE NoRequest

combination_rules == <<
    [type |-> "happy_bollywood", mood |-> {"happy"}, region |-> {"bollywood"},
     search_terms |-> <<"happy bollywood songs", "upbeat hindi music", "bollywood dance",
                         "cheerful hindi", "joyful bollywood", "bollywood party songs">>],
    [type |-> "happy_kpop", mood |-> {"happy"}, region |-> {"kpop", "k-pop", "korean"},
     search_terms |-> <<"happy kpop", "upbeat korean songs", "cheerful kpop", "bts happy songs",
                         "twice upbeat", "kpop dance songs">>],
    [type |-> "happy_afrobeats", mood |-> {"happy"}, region |-> {"afrobeats", "african"},
     search_terms |-> <<"happy afrobeats", "upbeat african music", "joyful afrobeats",
                         "afrobeats dance", "cheerful nigerian music", "party afrobeats">>],
    [type |-> "happy_latin", mood |-> {"happy"}, region |-> {"latin"},
     search_terms |-> <<"happy latin music", "upbeat reggaeton", "joyful salsa",
                         "latin dance songs", "cheerful spanish music", "party latin">>],
    [type |-> "sad_bollywood", mood |-> {"sad"}, region |-> {"bollywood"},
     search_terms |-> <<"sad bollywood songs", "emotional hindi music", "bollywood heartbreak",
                         "melancholic hindi", "sad arijit singh", "bollywood breakup songs">>],
    [type |-> "sad_kpop", mood |-> {"sad"}, region |-> {"kpop", "k-pop", "korean"},
     search_terms |-> <<"sad kpop", "emotional korean songs", "melancholic kpop", "bts sad songs",
                         "iu emotional", "kpop ballads">>],
    [type |-> "sad_indie", mood |-> {"sad"}, region |-> {"indie"},
     search_terms |-> <<"sad indie music", "melancholic indie", "emotional indie rock",
                         "indie heartbreak", "sad alternative", "indie folk sad">>],
    [type |-> "chill_kpop", mood |-> {"chill"}, region |-> {"kpop", "k-pop", "korean"},
     search_terms |-> <<"chill kpop", "relaxing korean music", "calm kpop", "lofi kpop",
                         "chill korean r&b", "peaceful kpop">>],
    [type |-> "chill_bollywood", mood |-> {"chill"}, region |-> {"bollywood"},
     search_terms |-> <<"chill bollywood", "relaxing hindi music", "calm bollywood",
                         "peaceful hindi songs", "bollywood acoustic", "soft bollywood">>],
    [type |-> "chill_afrobeats", mood |-> {"chill"}, region |-> {"afrobeats"},
     search_terms |-> <<"chill afrobeats", "relaxing african music", "smooth afrobeats",
                         "calm nigerian music", "afrobeats r&b", "mellow afrobeats">>],
    [type |-> "energetic_bollywood", mood |-> {"energetic", "pump", "hype", "intense"}, region |-> {"bollywood"},
     search_terms |-> <<"energetic bollywood", "pump up hindi songs", "high energy bollywood",
                         "bollywood workout songs", "intense hindi music", "hype bollywood">>],
    [type |-> "energetic_kpop", mood |-> {"energetic", "pump", "hype", "intense"}, region |-> {"kpop", "k-pop"},
     search_terms |-> <<"energetic kpop", "pump up korean songs", "high energy kpop",
                         "kpop workout songs", "intense kpop", "hype korean music">>],
    [type |-> "romantic_bollywood", mood |-> {"romantic", "love"}, region |-> {"bollywood"},
     search_terms |-> <<"romantic bollywood songs", "love hindi music", "bollywood romantic",
                         "hindi love songs", "romantic arijit singh", "bollywood couples songs">>],
    [type |-> "romantic_kpop", mood |-> {"romantic", "love"}, region |-> {"kpop", "k-pop"},
     search_terms |-> <<"romantic kpop", "love korean songs", "kpop love ballads",
                         "romantic korean music", "kpop couples songs", "korean love songs">>]
>>

category_rules == <<
    [type |-> "bengali", words |-> {"bengali", "bangla", "bengali song", "bengali music",
                              "bangladesh music"},
     search_terms |-> <<"bengali songs", "bangla music", "bengali folk", "bengali modern",
                         "rabindra sangeet", "nazrul geeti", "bengali romantic", "bengali sad",
                         "kishore kumar bengali", "lata mangeshkar bengali", "hemanta mukherjee",
                         "manna dey bengali", "sandhya mukherjee", "shyama sangeet",
                         "bengali adhunik gan", "bengali basic", "bengali movie songs",
                         "calcutta bengali", "dhaka bengali", "bengali classical",
                         "bengali devotional", "durga puja songs", "kali puja songs",
                         "poila boishakh songs", "bengali new year", "bangla band", "fossils band",
                         "cactus band", "chandrabindoo", "bhoomi band">>],
    [type |-> "tamil", words |-> {"tamil", "tamil song", "tamil music", "kollywood", "chennai music"},
     search_terms |-> <<"tamil songs", "kollywood music", "tamil movie songs", "tamil folk",
                         "a r rahman tamil", "ilaiyaraaja", "harris jayaraj",
                         "anirudh ravichander", "yuvan shankar raja", "tamil romantic",
                         "tamil melody", "tamil kuthu", "tamil classical", "carnatic music",
                         "tamil devotional", "murugan songs", "tamil gaana", "chennai gana",
                         "tamil rap", "hip hop tamizha", "tamil independent", "tamil indie",
                         "thalapathy songs", "ajith songs", "suriya songs", "dhanush songs",
                         "tamil latest", "tamil hits">>],
    [type |-> "telugu", words |-> {"telugu", "telugu song", "telugu music", "tollywood",
                              "hyderabad music"},
     search_terms |-> <<"telugu songs", "tollywood music", "telugu movie songs", "telugu folk",
                         "devi sri prasad", "thaman", "mickey j meyer", "gopi sundar telugu",
                         "telugu romantic", "telugu melody", "telugu mass", "telugu classical",
                         "annamayya songs", "tyagaraja kritis telugu", "telugu devotional",
                         "telugu folk songs", "telugu village songs", "telugu indie",
                         "pawan kalyan songs", "mahesh babu songs", "ram charan songs",
                         "allu arjun songs", "jr ntr songs", "telugu latest", "telugu hits">>],
    [type |-> "punjabi", words |-> {"punjabi", "punjabi song", "punjabi music", "bhangra", "punjab music"},
     search_terms |-> <<"punjabi songs", "bhangra music", "punjabi folk", "punjabi pop",
                         "diljit dosanjh", "gurdas maan", "babbu maan", "ammy virk",
                         "hardy sandhu", "guru randhawa", "sidhu moose wala", "karan aujla",
                         "punjabi romantic", "punjabi sad", "punjabi party", "punjabi dhol",
                         "punjabi classical", "gurbani", "punjabi devotional", "punjabi rap",
                         "punjabi hip hop", "punjabi indie", "punjabi latest", "punjabi hits",
                         "pollywood music", "punjabi movie songs", "sufi punjabi">>],
    [type |-> "afrobeats", words |-> {"afrobeats", "afro beats", "african", "nigerian", "ghana music",
                              "afro music", "african song"},
     search_terms |-> <<"afrobeats", "afro beats", "nigerian music", "ghana music",
                         "african music", "burna boy", "wizkid", "davido", "tiwa savage",
                         "yemi alade", "mr eazi", "tekno", "runtown", "patoranking", "stonebwoy",
                         "shatta wale", "sarkodie", "kcee", "flavour", "phyno", "afro pop",
                         "afro fusion", "afro trap", "afro house", "amapiano", "highlife",
                         "juju music", "fuji music", "african drums", "west african music",
                         "east african music", "south african music", "kenyan music",
                         "ethiopian music", "congolese music", "soukous">>],
    [type |-> "east_african", words |-> {"kenyan", "kenya music", "east african", "swahili music",
                              "bongo flava"},
     search_terms |-> <<"kenyan music", "bongo flava", "swahili music", "east african music",
                         "diamond platnumz", "rayvanny", "harmonize", "ali kiba", "vanessa mdee",
                         "sauti sol", "akothee", "bahati", "willy paul", "nyashinski",
                         "tanzanian music", "ugandan music", "rwandan music", "ethiopian music",
                         "amharic music", "oromo music", "taarab music", "benga music",
                         "kapuka music", "genge music", "afro zoom", "singeli">>],
    [type |-> "caribbean", words |-> {"reggae", "jamaican", "caribbean", "dancehall", "soca", "calypso"},
     search_terms |-> <<"reggae music", "jamaican music", "caribbean music", "dancehall",
                         "bob marley", "jimmy cliff", "toots hibbert", "burning spear", "shaggy",
                         "sean paul", "beenie man", "bounty killer", "vybz kartel", "chronixx",
                         "protoje", "koffee", "spice dancehall", "popcaan", "soca music",
                         "calypso music", "trinidad music", "barbados music", "steel drum",
                         "carnival music", "mento music", "ska music", "rocksteady",
                         "roots reggae", "dub music", "ragga music">>],
    [type |-> "brazilian", words |-> {"brazilian", "brazil music", "portuguese music", "bossa nova",
                              "samba", "forró"},
     search_terms |-> <<"brazilian music", "bossa nova", "samba", "forró", "mpb", "anitta",
                         "ludmilla", "wesley safadão", "gusttavo lima", "marília mendonça",
                         "caetano veloso", "gilberto gil", "chico buarque", "maria bethânia",
                         "tropicália", "axé music", "pagode", "funk carioca", "brazilian funk",
                         "sertanejo", "brazilian pop", "brazilian rock", "brazilian hip hop",
                         "baião", "frevo", "choro", "maracatu", "lambada">>],
    [type |-> "hindi_bollywood", words |-> {"hindi", "bollywood", "indian music", "hindi song"},
     search_terms |-> <<"bollywood music", "hindi songs", "hindi movie songs", "bollywood hits",
                         "a r rahman", "arijit singh", "shreya ghoshal", "lata mangeshkar",
                         "kishore kumar", "mohammed rafi", "asha bhosle", "sonu nigam",
                         "atif aslam", "rahat fateh ali khan", "mohit chauhan", "armaan malik",
                         "sunidhi chauhan", "shaan", "kk singer", "udit narayan",
                         "hindi romantic songs", "bollywood dance", "hindi pop",
                         "indian classical", "qawwali", "devotional hindi", "bollywood old",
                         "bollywood new", "hindi indie", "bollywood item songs">>],
    [type |-> "anime_japanese", words |-> {"anime", "japanese", "jpop", "j-pop", "otaku", "weeb", "manga"},
     search_terms |-> <<"japanese anime opening", "anime soundtrack", "jpop", "japanese music",
                         "j-rock", "japanese electronic", "anime ost", "naruto opening",
                         "studio ghibli", "japanese indie", "visual kei", "shibuya-kei",
                         "japanese punk", "japanese metal", "vocaloid", "japanese folk">>],
    [type |-> "kpop", words |-> {"kpop", "k-pop", "korean", "bts", "blackpink", "twice"},
     search_terms |-> <<"kpop", "korean pop", "korean music", "k-indie", "korean rock",
                         "korean hip hop", "korean ballad", "korean electronic", "korean r&b",
                         "korean folk", "korean alternative", "korean punk", "k-rock">>],
    [type |-> "rock", words |-> {"rock", "metal", "punk", "grunge", "alternative"},
     search_terms |-> <<"rock music", "alternative rock", "indie rock", "classic rock",
                         "progressive rock", "punk rock", "grunge", "post-rock", "metal",
                         "hard rock", "soft rock", "psychedelic rock", "garage rock", "folk rock",
                         "blues rock", "arena rock">>],
    [type |-> "hiphop", words |-> {"rap", "hip hop", "hip-hop", "trap", "drill"},
     search_terms |-> <<"hip hop", "rap music", "hip-hop", "trap music", "drill rap",
                         "old school hip hop", "conscious rap", "gangsta rap", "mumble rap",
                         "underground hip hop", "boom bap", "trap beats", "rap battles",
                         "freestyle rap", "east coast rap", "west coast rap", "southern rap">>],
    [type |-> "pop", words |-> {"pop", "mainstream", "radio", "chart", "hits"},
     search_terms |-> <<"pop music", "mainstream pop", "indie pop", "synth pop", "dance pop",
                         "electropop", "pop rock", "teen pop", "adult contemporary", "power pop",
                         "art pop", "chamber pop", "dream pop", "pop punk">>],
    [type |-> "electronic", words |-> {"electronic", "edm", "techno", "house", "dubstep"},
     search_terms |-> <<"electronic music", "edm", "techno", "house music", "dubstep", "trance",
                         "drum and bass", "ambient electronic", "chillwave", "synthwave",
                         "future bass", "deep house", "progressive house", "electro house",
                         "minimal techno", "acid house", "breakbeat">>],
    [type |-> "post_rock", words |-> {"post-rock", "post rock", "instrumental rock", "epic instrumental"},
     search_terms |-> <<"post-rock", "instrumental rock", "epic instrumental", "cinematic rock",
                         "godspeed you black emperor", "explosions in the sky",
                         "this will destroy you", "mono", "russian circles", "sigur ros",
                         "epic guitar", "atmospheric rock">>],
    [type |-> "ambient", words |-> {"ambient", "atmospheric", "soundscape", "drone", "minimal"},
     search_terms |-> <<"ambient music", "atmospheric music", "drone music", "soundscape",
                         "brian eno", "tim hecker", "william basinski", "stars of the lid",
                         "minimal ambient", "dark ambient", "field recordings", "sound art",
                         "new age", "meditation music", "space music", "ethereal ambient">>],
    [type |-> "shoegaze", words |-> {"shoegaze", "dream pop", "ethereal", "wall of sound"},
     search_terms |-> <<"shoegaze", "dream pop", "my bloody valentine", "slowdive", "ride",
                         "cocteau twins", "beach house", "mazzy star", "ethereal wave",
                         "noise pop", "wall of sound", "reverb heavy", "atmospheric pop">>],
    [type |-> "mainstream", words |-> {"mainstream", "chart hits", "billboard", "radio hits", "viral"},
     search_terms |-> <<"taylor swift", "drake", "billie eilish", "post malone", "ariana grande",
                         "the weeknd", "dua lipa", "olivia rodrigo", "harry styles", "bad bunny",
                         "chart hits", "billboard top", "mainstream pop", "radio hits",
                         "viral hits", "trending songs", "popular music", "hit songs", "top 40">>],
    [type |-> "indie", words |-> {"indie", "underground", "alternative", "experimental", "art rock"},
     search_terms |-> <<"phoebe bridgers", "tame impala", "mac miller", "clairo", "boy pablo",
                         "rex orange county", "beach house", "vampire weekend", "arctic monkeys",
                         "indie rock", "indie pop", "indie folk", "indie electronic",
                         "bedroom pop", "dream pop", "art rock", "experimental indie",
                         "lo-fi indie", "indie sleaze">>],
    [type |-> "seventies", words |-> {"70s", "1970s", "seventies", "disco era", "classic rock era"},
     search_terms |-> <<"70s hits", "1970s music", "seventies", "disco music", "classic rock 70s",
                         "funk 70s", "soul 70s", "psychedelic rock", "progressive rock 70s",
                         "folk rock 70s", "hard rock 70s", "glam rock", "punk 70s", "reggae 70s">>],
    [type |-> "eighties", words |-> {"80s", "1980s", "eighties", "new wave", "synth pop"},
     search_terms |-> <<"80s hits", "1980s music", "eighties", "new wave", "synth pop",
                         "post-punk", "new romantic", "hair metal", "glam metal", "freestyle",
                         "electronic 80s", "pop rock 80s", "alternative 80s", "dance 80s">>],
    [type |-> "nineties", words |-> {"90s", "1990s", "nineties", "grunge", "alternative rock"},
     search_terms |-> <<"90s hits", "1990s music", "nineties", "grunge", "alternative rock 90s",
                         "britpop", "trip-hop", "electronic 90s", "hip hop 90s", "r&b 90s",
                         "indie rock 90s", "shoegaze 90s", "post-rock 90s", "rave music">>],
    [type |-> "two_thousands", words |-> {"2000s", "early 2000s", "y2k", "millennium", "emo"},
     search_terms |-> <<"2000s hits", "early 2000s", "y2k music", "millennium music", "emo",
                         "pop punk 2000s", "nu metal", "garage rock revival", "crunk",
                         "teen pop 2000s", "r&b 2000s", "indie rock 2000s", "post-hardcore">>],
    [type |-> "happy", words |-> {"happy", "joyful", "cheerful", "sunny", "upbeat", "good mood"},
     search_terms |-> <<"happy songs", "feel good music", "upbeat pop", "cheerful music",
                         "joyful indie", "sunny reggae", "happy folk", "uplifting soul",
                         "positive vibes", "good mood rock", "happy electronic", "cheerful jazz",
                         "feel good hip hop", "happy country", "upbeat latin", "joyful gospel">>],
    [type |-> "excited", words |-> {"excited", "thrilled", "pumped", "hyped", "stoked", "energetic"},
     search_terms |-> <<"pump up songs", "hype music", "energetic pop", "party anthems",
                         "high energy rock", "intense electronic", "adrenaline music",
                         "workout songs", "explosive beats", "epic music", "power anthems",
                         "motivational rock", "intense rap", "high tempo", "festival bangers">>],
    [type |-> "romantic", words |-> {"love", "romantic", "affectionate", "passionate", "tender", "romance"},
     search_terms |-> <<"love songs", "romantic ballads", "slow jams", "romantic music",
                         "love ballads", "romantic pop", "romantic rock", "romantic r&b",
                         "acoustic love songs", "romantic indie", "love duets", "romantic jazz",
                         "romantic soul", "romantic country", "romantic folk", "serenades">>],
    [type |-> "confident", words |-> {"confident", "empowered", "strong", "bold", "powerful", "badass"},
     search_terms |-> <<"empowerment anthems", "confidence boosters", "powerful songs",
                         "boss music", "strong female vocals", "empowering hip hop",
                         "confident pop", "bold rock", "powerful ballads", "badass songs",
                         "strong anthems", "fierce music">>],
    [type |-> "grateful", words |-> {"grateful", "thankful", "appreciative", "blessed"},
     search_terms |-> <<"grateful songs", "thankful music", "appreciation anthems",
                         "blessing songs", "gratitude music", "thankful folk", "grateful rock",
                         "appreciation pop">>],
    [type |-> "peaceful", words |-> {"peaceful", "calm", "serene", "tranquil", "chill", "relaxed"},
     search_terms |-> <<"chill music", "relaxing songs", "peaceful acoustic", "ambient chill",
                         "calm electronic", "serene folk", "tranquil jazz", "peaceful piano",
                         "relaxing indie", "chill hip hop", "peaceful classical", "calm pop">>],
    [type |-> "sad", words |-> {"sad", "melancholic", "sorrowful", "heartbroken", "depressed", "down"},
     search_terms |-> <<"sad songs", "melancholic music", "heartbreak ballads", "emotional songs",
                         "depressing music", "sad indie", "melancholy folk", "sad acoustic",
                         "breakup songs", "crying songs", "sad piano", "emotional ballads",
                         "sad alternative", "melancholic electronic", "sad country", "blues music">>],
    [type |-> "angry", words |-> {"angry", "furious", "aggressive", "mad", "rage", "pissed"},
     search_terms |-> <<"angry music", "aggressive rock", "metal songs", "rage music",
                         "hardcore punk", "angry rap", "aggressive electronic", "thrash metal",
                         "nu metal", "angry alternative", "hardcore music", "intense rock",
                         "angry hip hop", "aggressive indie", "punk rock", "death metal">>],
    [type |-> "anxious", words |-> {"anxious", "worried", "nervous", "stressed", "anxiety", "panic"},
     search_terms |-> <<"calming music", "anxiety relief songs", "soothing tracks",
                         "stress relief", "peaceful ambient", "relaxing classical",
                         "calming indie", "soothing folk">>],
    [type |-> "lonely", words |-> {"lonely", "isolated", "empty", "longing", "alone"},
     search_terms |-> <<"lonely songs", "isolation music", "longing ballads", "alone time tracks",
                         "solitude music", "lonely indie", "melancholy folk", "isolation rock">>],
    [type |-> "latin", words |-> {"latin", "spanish", "reggaeton", "salsa", "bachata"},
     search_terms |-> <<"latin music", "reggaeton", "salsa", "bachata", "spanish music",
                         "merengue", "cumbia", "latin pop", "spanish rock", "latin hip hop",
                         "flamenco", "bossa nova", "samba", "tango", "mariachi", "latin jazz">>],
    [type |-> "workout", words |-> {"workout", "gym", "cardio", "strength", "exercise", "fitness"},
     search_terms |-> <<"workout music", "gym songs", "cardio tracks", "fitness anthems",
                         "running music", "weightlifting songs", "exercise music",
                         "training beats", "high energy workout", "intense fitness",
                         "power training", "HIIT music", "crossfit music", "spinning music",
                         "marathon music", "athletic anthems">>],
    [type |-> "study", words |-> {"study", "focus", "concentration", "work", "productive"},
     search_terms |-> <<"study music", "focus tracks", "concentration songs", "productive vibes",
                         "ambient study", "lo-fi hip hop", "classical study",
                         "peaceful instrumental", "brain music", "meditation music", "white noise",
                         "nature sounds", "minimal electronic", "study beats", "calm piano",
                         "reading music">>],
    [type |-> "party", words |-> {"party", "celebration", "dance", "social", "club"},
     search_terms |-> <<"party music", "dance songs", "celebration tracks", "club anthems",
                         "party bangers", "dance hits", "club music", "party pop",
                         "festival music", "dance floor", "party rock", "upbeat dance",
                         "party hip hop", "dance electronic", "party classics", "celebration songs">>],
    [type |-> "driving", words |-> {"driving", "road trip", "cruising", "car", "highway"},
     search_terms |-> <<"driving music", "road trip songs", "cruising tracks", "highway anthems",
                         "car music", "travel songs", "journey music", "road music">>],
    [type |-> "gaming", words |-> {"gaming", "games", "video game", "epic", "boss battle", "rpg"},
     search_terms |-> <<"gaming music", "epic electronic", "video game soundtracks",
                         "boss battle", "epic orchestral", "cinematic music",
                         "dramatic electronic", "intense gaming", "rpg music", "fantasy music",
                         "adventure music", "heroic music", "epic trailer music",
                         "powerful orchestral", "dramatic scores">>],
    [type |-> "lofi", words |-> {"lofi", "lo-fi", "chill hop", "study beats", "aesthetic"},
     search_terms |-> <<"lo-fi hip hop", "chill hop", "study beats", "lofi music",
                         "aesthetic music", "chillwave", "lo-fi beats", "relaxing hip hop",
                         "calm beats", "peaceful hip hop", "ambient hip hop", "dreamy beats",
                         "nostalgic beats", "vintage hip hop", "soft beats", "mellow hip hop">>],
    [type |-> "vietnamese", words |-> {"vietnamese", "vietnam music", "vpop", "vietnamese song"},
     search_terms |-> <<"vietnamese music", "vpop", "vietnam pop", "vietnamese songs",
                         "son tung mtp", "duc phuc", "erik vietnam", "chi pu", "vietnamese ballad",
                         "vietnamese rap", "vietnamese indie", "vietnamese folk",
                         "vietnamese modern", "ho chi minh music">>],
    [type |-> "thai", words |-> {"thai", "thailand music", "thai song", "thai pop"},
     search_terms |-> <<"thai music", "thai pop", "thailand songs", "thai ballad", "bodyslam",
                         "potato", "clash", "silly fools", "big ass", "thai indie", "thai rock",
                         "thai hip hop", "thai folk", "luk thung", "mor lam", "thai country",
                         "bangkok music">>],
    [type |-> "arabic", words |-> {"arabic", "middle eastern", "arabic music", "arab music", "lebanese",
                              "egyptian music"},
     search_terms |-> <<"arabic music", "middle eastern music", "arab songs", "fairuz",
                         "amr diab", "nancy ajram", "elissa", "tamer hosny", "arabic pop",
                         "arabic classical", "oud music", "arabic ballad", "egyptian music",
                         "lebanese music", "iraqi music", "syrian music", "arabic rap",
                         "arabic folk", "traditional arabic">>],
    [type |-> "indonesian", words |-> {"indonesian", "indonesia music", "indo music", "indonesian song"},
     search_terms |-> <<"indonesian music", "indo pop", "indonesia songs", "raisa",
                         "isyana sarasvati", "afgan", "glenn fredly", "indonesian indie",
                         "indonesian rock", "dangdut", "indonesian folk", "jakarta music",
                         "indonesian ballad">>],
    [type |-> "nordic", words |-> {"finnish", "finland music", "nordic music", "scandinavian music"},
     search_terms |-> <<"finnish music", "nordic music", "scandinavian music", "sunrise avenue",
                         "nightwish", "him band", "children of bodom", "finnish rock",
                         "nordic folk", "finnish metal", "nordic pop", "icelandic music",
                         "norwegian music", "danish music", "swedish indie">>],
    [type |-> "mexican", words |-> {"mexican", "mexico music", "mariachi", "banda", "ranchera"},
     search_terms |-> <<"mexican music", "mariachi", "banda music", "ranchera",
                         "vicente fernandez", "juan gabriel", "alejandro fernandez",
                         "mexican folk", "regional mexican", "norteño", "corridos", "mexican pop",
                         "mexican rock", "mexican indie", "mexico traditional">>],
    [type |-> "russian", words |-> {"russian", "russia music", "eastern european", "slavic music"},
     search_terms |-> <<"russian music", "russian pop", "russian rock", "russian folk",
                         "eastern european music", "slavic music", "russian ballad",
                         "russian indie", "soviet music", "ukrainian music", "polish music",
                         "czech music">>]
>>

general_terms == <<"popular music", "trending songs", "chart hits", "radio hits",
                         "viral songs", "new releases", "indie hits", "underground hits",
                         "international hits", "crossover hits", "breakthrough artists",
                         "emerging artists", "hidden gems", "cult classics", "fan favorites">>

\* the first rule of the chain rules whose index is in I
FirstRule(rules, I) ==
    IF I = {} THEN NoRequest ELSE Request(rules[Min(I)].type, rules[Min(I)].search_terms)

\* "Genre and mood combinations": the if/elif chain of lines 343-485
combination_request(message_lower) ==
    FirstRule(combination_rules,
              {i \in DOMAIN combination_rules :
                   /\ AnyIn(combination_rules[i].mood, message_lower)
                   /\ AnyIn(combination_rules[i].region, message_lower)})

\* the if/elif chain of lines 490-1139, with its else branch
category_request(message_lower) ==
    OrElse(FirstRule(category_rules,
                     {i \in DOMAIN category_rules : AnyIn(category_rules[i].words, message_lower)}),
           Request("general", general_terms))

\* (mutant of analyze_message: the specific-song patterns tried before the creator phrases)
analyze_song_before_creator(user_message, message_lower, spotify) ==
    IF AnyIn(profile_patterns, message_lower) THEN Request("profile_request", <<>>)
    ELSE OrElse(specific_song_request(message_lower),
         IF AnyIn(creator_patterns, message_lower) THEN Request("creator_request", <<>>)
         ELSE OrElse(explicit_artist_request(message_lower, spotify),
              OrElse(dynamic_artist_request(user_message, spotify),
              OrElse(combination_request(message_lower),
                     category_request(message_lower)))))

\* (mutant of analyze_message: the single categories tried before the combinations)
analyze_category_before_combination(user_message, message_lower, spotify) ==
    IF AnyIn(profile_patterns, message_lower) THEN Request("profile_request", <<>>)
    ELSE IF AnyIn(creator_patterns, message_lower) THEN Request("creator_request", <<>>)
    ELSE OrElse(specific_song_request(message_lower),
         OrElse(explicit_artist_request(message_lower, spotify),
         OrElse(dynamic_artist_request(user_message, spotify),
         OrElse(FirstRule(category_rules,
                          {i \in DOMAIN category_rules :
                               AnyIn(category_rules[i].words, message_lower)}),
         OrElse(combination_request(message_lower),
                Request("general", general_terms))))))

\* analyze_user_request after message_lower = user_message.lower()
analyze_message(user_message, message_lower, spotify) ==
    IF AnyIn(profile_patterns, message_lower) THEN Request("profile_request", <<>>)
    ELSE IF AnyIn(creator_patterns, message_lower) THEN Request("creator_request", <<>>)
    ELSE OrElse(specific_song_request(message_lower),
         OrElse(explicit_artist_request(message_lower, spotify),
         OrElse(dynamic_artist_request(user_message, spotify),
         OrElse(combination_request(message_lower),
                category_request(message_lower)))))

analyze_user_request(user_message, spotify) ==
    analyze_message(user_message, Lower(user_message), spotify)

(***************************************************************************)
(* services/ai_service.py: the song read from the text of a reply.         *)
(* The texts of the model are ASCII: the emoji and the dashes that the     *)
(* character classes of the patterns also name never occur in them.        *)
(***************************************************************************)
\* [.!?\n,..]: the characters the artist group stops before
IsStop(c) == c \in {".", "!", "?", "\n", ","}

\* (?=[\s]*[.!?\n,..]|$) holds at position p
LookAhead(s, p) ==
    \/ p > Len(s)
    \/ \E k \in p..Len(s) : IsStop(Chr(s, k)) /\ \A m \in p..(k - 1) : IsSpace(Chr(s, m))

\* ([^.!?\n,..]+?)(?=..) from position b: where the lazy group can end
ArtistEnds(s, b) ==
    {e \in b..Len(s) : (\A k \in b..e : ~IsStop(Chr(s, k))) /\ LookAhead(s, e + 1)}

\* ['\"]([^'\"]+)['\"] by ([^.!?\n,..]+?)(?=..) with its opening quote at q
MentionOk(s, q, J) == QuotedOk(s, q, J) /\ ~IsStop(Chr(s, Min(J) + 5))
MentionAt(s, q, j) == <<SubSeq(s, q + 1, j - 1), SubSeq(s, j + 5, Min(ArtistEnds(s, j + 5)))>>
MentionFrom(s, Q) == IF Q = {} THEN <<>> ELSE MentionAt(s, Min(Q), Min(QuotedEnd(s, Min(Q))))

\* patterns 1 to 4: the words w (lower-cased; re.IGNORECASE) right before the quote
IntroQuotes(s, low, w) ==
    {q \in (Len(w) + 1)..Len(s) : /\ HasAt(low, q - Len(w), w)
                                  /\ IsQuote(Chr(s, q))
                                  /\ MentionOk(s, q, QuotedEnd(s, q))}
SearchIntro(s, w) == MentionFrom(s, IntroQuotes(s, Lower(s), w))

\* pattern 5: (?:^|[^a-zA-Z]) before the quote
StandaloneQuotes(s) ==
    {q \in 1..Len(s) : /\ IsQuote(Chr(s, q))
                       /\ (q = 1 \/ ~IsAlpha(Chr(s, IF q = 1 THEN 1 ELSE q - 1)))
                       /\ MentionOk(s, q, QuotedEnd(s, q))}
SearchStandalone(s) == MentionFrom(s, StandaloneQuotes(s))

\* pattern 6: [Tt]ry ([^\n..]+?) by ([^\n.!?,..]+?)(?=..), the song without quotes
BareEnds(s, i) ==
    {e \in (i + 4)..Len(s) : /\ \A k \in (i + 4)..e : Chr(s, k) # "\n"
                             /\ ByAt(s, e + 1)
                             /\ ~IsStop(Chr(s, e + 5))}
BareStarts(s, low) == {i \in 1..Len(s) : HasAt(low, i, "try ") /\ BareEnds(s, i) # {}}
BareAt(s, i, e) == <<SubSeq(s, i + 4, e), SubSeq(s, e + 5, Min(ArtistEnds(s, e + 5)))>>
BareFrom(s, I) == IF I = {} THEN <<>> ELSE BareAt(s, Min(I), Min(BareEnds(s, Min(I))))
SearchBare(s) == BareFrom(s, BareStarts(s, Lower(s)))

\* cleanup_words (its first entry, the punctuation, cannot occur in the group)
cleanup_words ==
    {"it's", "that's", "sweet", "reggae", "perfection", "vibes", "music", "hits", "pure",
     "total", "absolute", "epic", "energy", "feels", "mood", "guaranteed", "instant",
     "serious", "major"}

\* re.sub(r'\s+word' + r'.*$', '', artist_name) for every word: the text before the
\* first whitespace that one of the words follows
CutPoints(a, low) ==
    {i \in 1..Len(a) : IsSpace(Chr(a, i)) /\ \E w \in cleanup_words : HasAt(low, SkipSpaces(a, i), w)}
CutFrom(a, I) == IF I = {} THEN a ELSE SubSeq(a, 1, Min(I) - 1)
CutWords(a) == CutFrom(a, CutPoints(a, Lower(a)))

\* str.rstrip('!.?,-')
RECURSIVE RStripPunct(_)
RStripPunct(s) ==
    IF s # "" /\ Chr(s, Len(s)) \in {"!", ".", "?", ",", "-"}
    THEN RStripPunct(SubSeq(s, 1, Len(s) - 1)) ELSE s

\* ' '.join(words)
RECURSIVE Join(_)
Join(words) == IF words = <<>> THEN ""
               ELSE IF Len(words) = 1 THEN words[1]
               ELSE words[1] \o " " \o Join(Tail(words))

\* "Handle overly long artist names"
ShortenTo(a, words) ==
    IF Len(a) > 35
    THEN (IF Len(words) > 3 THEN Join(SubSeq(words, 1, 3))
          ELSE IF Len(words) > 1 THEN Join(SubSeq(words, 1, 2))
          ELSE a)
    ELSE a
Shorten(a) == ShortenTo(a, Split(a))

CleanArtist(artist_name) == Strip(Shorten(RStripPunct(Strip(CutWords(Strip(artist_name))))))

\* the body of "if match:": the descriptor, or None to go on with the next pattern
ExtractedOf(song_name, artist_name) ==
    IF song_name # "" /\ artist_name # ""
    THEN "'" \o song_name \o "' by " \o artist_name
    ELSE None
Extracted(m) == IF m = <<>> THEN None ELSE ExtractedOf(Strip(m[1]), CleanArtist(m[2]))

RECURSIVE FirstExtracted(_)
FirstExtracted(found) ==
    IF found = <<>> THEN None
    ELSE IF Head(found) # None THEN Head(found)
    ELSE FirstExtracted(Tail(found))

extract_song_from_response(ai_text) ==
    FirstExtracted(<<Extracted(SearchIntro(ai_text, "try ")),
                     Extracted(SearchIntro(ai_text, "check out ")),
                     Extracted(SearchIntro(ai_text, "listen to ")),
                     Extracted(SearchIntro(ai_text, "go with ")),
                     Extracted(SearchStandalone(ai_text)),
                     Extracted(SearchBare(ai_text))>>)

(***************************************************************************)
(* services/ai_service.py: the texts generate_ai_response can return.      *)
(***************************************************************************)
openers ==
    <<"Okay bestie,", "Listen up,", "Alright alright,", "Oh honey,", "You know what?",
      "Here's the tea:", "Plot twist:", "Real talk:", "Not to be dramatic but",
      "I'm about to change your life:", "Your playlist is about to thank me:",
      "This is your moment:">>
confidence ==
    <<"this is about to be PERFECT", "you're gonna obsess over this",
      "this one hits different", "absolute chef's kiss vibes", "this is THE one",
      "trust me on this", "you'll thank me later", "this is your new anthem",
      "prepare to be blessed", "this is going straight to your favorites">>
song_intros ==
    <<"Try", "Give", "Check out", "Listen to", "Go with", "Your ears need", "Time for",
      "Here's", "Meet your new obsession:", "Introducing", "Say hello to", "Ready for">>

\* the texts end before the emoji the code closes them with
no_songs_responses ==
    {"My database is having main character syndrome right now, but your taste is immaculate! Try 'As It Was' by Harry Styles while I get my life together!",
     "Plot twist: my song library decided to take a coffee break! But I KNOW you've got taste, so try 'Anti-Hero' by Taylor Swift!",
     "Not my database acting up when you need me most! Your vibe deserves better - try 'Flowers' by Miley Cyrus while I fix this mess!",
     "Listen, my song collection is being dramatic, but I refuse to leave you hanging! Try 'Unholy' by Sam Smith while I sort this out!",
     "My database said 'not today' but your music taste said 'ALWAYS'! Go stream 'Bad Habit' by Steve Lacy while I handle business!"}

artist_responses(artist_name) ==
    {"Listen, I love " \o artist_name \o " too, but my database is being dramatic right now. Try searching directly on Spotify!",
     artist_name \o " is iconic! Unfortunately my song collection is having commitment issues. Check Spotify directly!",
     "We stan " \o artist_name \o "! But my database chose violence today. Hit up Spotify for the goods!",
     artist_name \o " supremacy! My database is being messy though - try Spotify for their latest!"}

\* the random.choice calls of the model: which opener, boost and intro, and how
\* far into available_songs
OpenerPicks == {6}
BoostPicks == {4}
IntroPicks == {1, 3, 9}
Picks(available_songs) ==
    1..(IF Len(available_songs) > MaxPick THEN MaxPick ELSE Len(available_songs))

\* get_creative_fallback_response: the texts it can return
get_creative_fallback_response(available_songs) ==
    IF available_songs # <<>>
    THEN {openers[o] \o " " \o confidence[b] \o "! " \o song_intros[i] \o " " \o available_songs[n] :
             o \in OpenerPicks, b \in BoostPicks, i \in IntroPicks, n \in Picks(available_songs)}
    ELSE no_songs_responses

\* str.replace(old, new)
RECURSIVE ReplaceFrom(_, _, _, _)
ReplaceFrom(s, old, new, I) ==
    IF I = {} THEN s
    ELSE SubSeq(s, 1, Min(I) - 1) \o new
             \o ReplaceFrom(SubSeq(s, Min(I) + Len(old), Len(s)), old, new,
                            {i - (Min(I) + Len(old) - 1) : i \in {j \in I : j >= Min(I) + Len(old)}})
Replace(s, old, new) == ReplaceFrom(s, old, new, {i \in 1..Len(s) : HasAt(s, i, old)})

\* What the language model answers when it answers: a text naming a track of the
\* catalog in one of the prompted forms, or a text naming none.
AiReplies ==
    {"Great taste! Try 'Love Story' by Ann!",
     "Try 'Zed' by Cy - pure vibes",
     "You could check out 'My Love Song' by Ann, it's sweet.",
     "Go with \"Blue\" by Dee.",
     "I have no idea, sorry."}

\* the "except Exception" branch of generate_ai_response: the texts it can return
FallbackTexts(user_request, available_songs) ==
    IF user_request.type = "artist_search"
    THEN (IF available_songs # <<>>
          THEN {Replace(text, "Try", "Okay " \o user_request.artist_name \o " fan, try") :
                   text \in get_creative_fallback_response(available_songs)}
          ELSE artist_responses(user_request.artist_name))
    ELSE get_creative_fallback_response(available_songs)

\* generate_ai_response: the texts it can return
generate_ai_response(user_request, available_songs) ==
    AiReplies \cup FallbackTexts(user_request, available_songs)

(***************************************************************************)
(* services/spotify_service.py: the catalog search and the three           *)
(* retrievals.  A similarity is kept as an integer, 1.0 being Whole.       *)
(***************************************************************************)
\* re.sub(r'[.!?,-]+.*$', '', artist_name)
PunctAt(a) == {i \in 1..Len(a) : Chr(a, i) \in {".", "!", "?", ",", "-"}}
CutPunct(a) == CutFrom(a, PunctAt(a))

\* <<song_name, artist_name>>, or <<None, None>>
SongAndArtist(m) == <<Strip(m[1]), Strip(CutPunct(Strip(m[2])))>>
SongAndArtistFrom(m1, m2) ==
    IF m1 # <<>> THEN SongAndArtist(m1)
    ELSE IF m2 # <<>> THEN SongAndArtist(m2)
    ELSE <<None, None>>
extract_song_and_artist(query) == SongAndArtistFrom(SearchQuotedBy(query), SearchPlainBy(query))

\* normalize: re.sub(r'[^\w\s]', '', text.lower()).strip()
IsWordChar(c) == IsAlpha(c) \/ IsDigit(c) \/ c = "_"
RECURSIVE KeepWordChars(_)
KeepWordChars(s) ==
    IF s = "" THEN ""
    ELSE (IF IsWordChar(Head(s)) \/ IsSpace(Head(s)) THEN Head(s) ELSE "")
             \o KeepWordChars(Tail(s))
normalize(text) == Strip(KeepWordChars(Lower(text)))

Whole == 2520                    \* the similarity 1.0; every n in 1..10 divides it

Overlap(words1, words2) ==
    IF words1 = {} \/ words2 = {} THEN 0
    ELSE (Whole * Cardinality(words1 \cap words2)) \div Cardinality(words1 \cup words2)
Similarity(norm1, norm2) ==
    IF norm1 = norm2 THEN Whole
    ELSE IF IsSubstr(norm1, norm2) \/ IsSubstr(norm2, norm1) THEN (9 * Whole) \div 10
    ELSE Overlap(WordSet(norm1), WordSet(norm2))
calculate_string_similarity(str1, str2) ==
    IF str1 = "" \/ str2 = "" THEN 0 ELSE Similarity(normalize(str1), normalize(str2))

\* (song_score * 0.6) + (artist_score * 0.4), ten times over: 1.0 is 10 * Whole
calculate_match_score(target_song, target_artist, result_song, result_artist) ==
    6 * calculate_string_similarity(target_song, result_song)
        + 4 * calculate_string_similarity(target_artist, result_artist)

\* the loop over tracks[:3]: the first track of the highest score, if above 0.0
TopThree(tracks) == SubSeq(tracks, 1, IF Len(tracks) > 3 THEN 3 ELSE Len(tracks))
ScoresOf(parts, tracks) ==
    [j \in 1..Len(tracks) |->
        calculate_match_score(parts[1], parts[2], tracks[j].name, tracks[j].artist)]
BestIndex(scores, top) ==
    IF top = 0 THEN 0 ELSE Min({j \in DOMAIN scores : scores[j] = top})
BestOf(scores) == BestIndex(scores, Max({0} \cup {scores[j] : j \in DOMAIN scores}))

\* "Process result": the track if best_score >= 0.6
ResultOf(tracks, scores, best) ==
    IF best # 0 /\ scores[best] >= 6 * Whole
    THEN [name |-> tracks[best].name, artist |-> tracks[best].artist,
          popularity |-> tracks[best].popularity, match_score |-> scores[best]]
    ELSE NoneData
ResultFrom(tracks, scores) == ResultOf(tracks, scores, BestOf(scores))

\* search_spotify_song past the cache: [parsed, result].  Both strategies get the
\* same answer from the catalog (tracks), so the second one changes nothing; a
\* search that raises leaves best_match None.
SearchParts(parts, tracks) ==
    IF parts[1] \in {None, ""} \/ parts[2] \in {None, ""}
    THEN [parsed |-> FALSE, result |-> NoneData]
    ELSE [parsed |-> TRUE, result |-> ResultFrom(tracks, Tabulate(ScoresOf(parts, TopThree(tracks))))]
SearchCatalog(query, tracks) == SearchParts(extract_song_and_artist(query), tracks)

\* get_smart_songs_from_results(tracks, limit): the descriptors of the tracks of
\* popularity above 15, highest smart score first (list.sort is stable)
SmartScore(track) ==
    track.popularity
      + (IF track.popularity > 70 THEN 20 ELSE IF track.popularity > 50 THEN 10 ELSE 0)
      + (IF track.preview_url THEN 5 ELSE 0)
      + (IF track.explicit THEN 3 ELSE 0)
Rank(items, i) ==
    1 + Cardinality({j \in DOMAIN items :
                        \/ SmartScore(items[j]) > SmartScore(items[i])
                        \/ SmartScore(items[j]) = SmartScore(items[i]) /\ j < i})
Limit(songs, n) == SubSeq(songs, 1, IF Len(songs) > n THEN n ELSE Len(songs))
SortedByScore(items) ==
    [k \in 1..Len(items) |-> Descriptor(items[CHOOSE i \in 1..Len(items) : Rank(items, i) = k])]
MorePopular(tracks, n) == SelectSeq(tracks, LAMBDA track : track.popularity > n)
get_smart_songs_from_results(tracks, limit) == Limit(SortedByScore(MorePopular(tracks, 15)), limit)

\* search_specific_genre_smart: found is what the searches of the terms brought
\* together (none when the client raises: every search is skipped)
search_specific_genre(world, found) ==
    IF ~world.enabled THEN <<>>
    ELSE get_smart_songs_from_results(MorePopular(found, 15), 20)

\* search_artist_songs_smart: found is the artist's top tracks and the additional
\* tracks; an exception of the client, or no artist of a matching name, gives []
NameMatch(artist_name, artist) ==
    \/ IsSubstr(Lower(artist_name), Lower(artist.name))
    \/ IsSubstr(Lower(artist.name), Lower(artist_name))
search_artist_songs(artist_name, world, found) ==
    IF ~world.enabled \/ world.raises THEN <<>>
    ELSE IF \A n \in DOMAIN world.artists :
               ~(NameMatch(artist_name, world.artists[n]) /\ world.artists[n].popularity > 0)
    THEN <<>>
    ELSE get_smart_songs_from_results(MorePopular(found, 10), 15)

\* "if song not in trending_songs": the first occurrence of every song
RECURSIVE Unique(_, _)
Unique(songs, seen) ==
    IF songs = <<>> THEN <<>>
    ELSE IF Head(songs) \in seen THEN Unique(Tail(songs), seen)
    ELSE <<Head(songs)>> \o Unique(Tail(songs), seen \cup {Head(songs)})
DescriptorsOf(tracks) == [k \in 1..Len(tracks) |-> Descriptor(tracks[k])]

\* get_trending_songs_optimized: [songs, trending_cache].  found is what the
\* queries brought together, in the order the shuffle leaves it.
get_trending_songs(world, cache, found) ==
    IF ~world.enabled THEN [songs |-> get_diverse_fallback_songs, trending_cache |-> cache]
    ELSE IF cache.fresh THEN [songs |-> cache.songs, trending_cache |-> cache]
    ELSE [songs |-> Limit(Unique(DescriptorsOf(MorePopular(found, 30)), {}), 100),
          trending_cache |->
              [songs |-> Limit(Unique(DescriptorsOf(MorePopular(found, 30)), {}), 100),
               fresh |-> TRUE]]

\* search_youtube_song: the first video, or None
search_youtube_song(world) ==
    IF ~world.enabled \/ world.raises \/ world.videos = <<>> THEN NoneData
    ELSE [title |-> world.videos[1].title, channel |-> world.videos[1].channel]

(***************************************************************************)
(* The memory filter called on its own: every candidate list and history   *)
(* over a few descriptors that exercise the three matching strategies.     *)
(***************************************************************************)
BSeq(S, n) == UNION {[1..k -> S] : k \in 0..n}


NoCall == [raised |-> FALSE, ret |-> <<>>, fallback |-> FALSE,
           args |-> [trending_songs |-> <<>>, suggested_songs |-> <<>>]]

FInit ==
    /\ f_pc = "ready"
    /\ f_trending \in BSeq(FilterCandidates, MaxCand)
    /\ f_suggested \in BSeq(FilterHistory, MaxHist) \cup {<<UntitledHistory>>}
    /\ f_in = [trending_songs |-> f_trending, suggested_songs |-> f_suggested]
    /\ f_out = NoCall
    /\ f_again = NoCall

\* x = filter_trending_songs(trending_songs, suggested_songs)
FilterCall ==
    /\ f_pc = "ready"
    /\ LET r == filter_trending_songs(f_trending, f_suggested)
       IN  /\ f_out' = r
           /\ f_trending' = r.args.trending_songs
           /\ f_suggested' = r.args.suggested_songs
    /\ f_pc' = "filtered"
    /\ UNCHANGED <<f_in, f_again>>

\* y = filter_trending_songs(x, suggested_songs): the list returned is filtered
\* again, against the same history
FilterAgain ==
    /\ f_pc = "filtered"
    /\ ~f_out.raised
    /\ LET r == filter_trending_songs(f_out.ret, f_suggested)
       IN  /\ f_again' = r
           /\ f_suggested' = r.args.suggested_songs
    /\ f_pc' = "refiltered"
    /\ UNCHANGED <<f_trending, f_in, f_out>>

FilterIdle ==
    /\ f_pc = "idle" /\ f_trending = <<>> /\ f_suggested = <<>>
    /\ f_in = [trending_songs |-> <<>>, suggested_songs |-> <<>>]
    /\ f_out = NoCall /\ f_again = NoCall

(***************************************************************************)
(* The classifier called on its own, over messages that make its rules     *)
(* overlap and over the answers the artist search can give.                *)
(***************************************************************************)
Messages ==
    {"what's my name", "Who made you", "who made you my spotify",
     "my profile by me", "who made you by hand",
     "Shape of You by Ed Sheeran", "Love Story by Ann", "play hello by adele", "x by play yy by zz",
     "songs by keshi", "give me songs by keshi", "songs from keshi", "keshi songs",
     "music from keshi", "play songs from keshi", "keshi band", "Keshi", "keshi sad bollywood",
     "sad bollywood", "Sad Bollywood songs", "happy sad bollywood", "sad korean",
     "chill kpop", "chill bollywood", "energetic k-pop", "love bollywood", "love kpop",
     "give me some hindi song", "hindi", "bollywood", "sad", "happy", "chill",
     "popular", "trap", "hello", "good vibes only", "surprise me"}

keshi == [name |-> "Keshi", id |-> "id1", popularity |-> 70]

SpotifyClients ==
    {[client |-> FALSE, raises |-> FALSE, artists |-> <<>>],
     [client |-> TRUE, raises |-> TRUE, artists |-> <<>>],
     [client |-> TRUE, raises |-> FALSE, artists |-> <<>>],
     [client |-> TRUE, raises |-> FALSE, artists |-> <<keshi>>],
     [client |-> TRUE, raises |-> FALSE,
      artists |-> <<[name |-> "Keshi", id |-> "id1", popularity |-> 10]>>],
     [client |-> TRUE, raises |-> FALSE,
      artists |-> <<[name |-> "Keshi", id |-> "id1", popularity |-> 15]>>],
     [client |-> TRUE, raises |-> FALSE,
      artists |-> <<[name |-> "Keshi", id |-> "id1", popularity |-> 16]>>],
     [client |-> TRUE, raises |-> FALSE,
      artists |-> <<[name |-> "keshi", id |-> "id3", popularity |-> 10],
                    [name |-> "Keshi Band", id |-> "id2", popularity |-> 50]>>],
     [client |-> TRUE, raises |-> FALSE,
      artists |-> <<[name |-> "Keshi Band", id |-> "id2", popularity |-> 60],
                    [name |-> "keshi", id |-> "id3", popularity |-> 20]>>]}

\* analyze_user_request on the messages and answers of the model, computed once
RequestTable ==
    Tabulate([m \in Messages |->
                 Tabulate([spotify \in SpotifyClients |-> analyze_user_request(m, spotify)])])

CInit ==
    /\ c_pc = "ready"
    /\ c_message \in Messages
    /\ c_spotify \in SpotifyClients
    /\ c_request = NoRequest

\* user_request = analyze_user_request(user_message)
AnalyzeCall ==
    /\ c_pc = "ready"
    /\ c_request' = RequestTable[c_message][c_spotify]
    /\ c_pc' = "analyzed"
    /\ UNCHANGED <<c_message, c_spotify>>

ClassifyIdle ==
    /\ c_pc = "idle" /\ c_message = "" /\ c_spotify = [client |-> FALSE, raises |-> FALSE, artists |-> <<>>]
    /\ c_request = NoRequest

(***************************************************************************)
(* The two descriptor parsers called on their own: extract_song_parts of   *)
(* the memory service and extract_song_and_artist of the Spotify service,  *)
(* on descriptors written as '<title>' by <artist> and on strings that     *)
(* hold no " by ".                                                         *)
(***************************************************************************)
Titles == {"Anti-Hero", "Love Story", "hello", "Stand By Me", "7 rings", "God is a woman"}
Artists == {"Taylor Swift", "Ann", "keshi", "Jay-Z", "A.R. Rahman", "Panic! At The Disco",
            "Ann "}
PlainTexts == {"random text", "Anti-Hero", "Standby Me", "bye bye", "Hello World",
               "'Love Story'", "LOVE", ""}

Written(title, artist) ==
    [quoted |-> TRUE, title |-> title, artist |-> artist,
     text |-> "'" \o title \o "' by " \o artist]
Unparsed(text) == [quoted |-> FALSE, title |-> text, artist |-> "", text |-> text]
ParserInputs ==
    {Written(title, artist) : title \in Titles, artist \in Artists}
        \cup {Unparsed(text) : text \in PlainTexts}

NotParsed == <<>>
ParseTable ==
    Tabulate([text \in {d.text : d \in ParserInputs} |->
                 [parts |-> extract_song_parts(text), pair |-> extract_song_and_artist(text)]])

PInit ==
    /\ p_descriptor \in ParserInputs
    /\ p_parts = NotParsed
    /\ p_pair = NotParsed

\* song_name, artist_name = extract_song_parts(song)
ExtractParts ==
    /\ p_descriptor.text # None
    /\ p_parts = NotParsed
    /\ p_parts' = ParseTable[p_descriptor.text].parts
    /\ UNCHANGED <<p_descriptor, p_pair>>

\* song_name, artist_name = extract_song_and_artist(query)
ExtractSongAndArtist ==
    /\ p_descriptor.text # None
    /\ p_pair = NotParsed
    /\ p_pair' = ParseTable[p_descriptor.text].pair
    /\ UNCHANGED <<p_descriptor, p_parts>>

ParseIdle ==
    /\ p_descriptor = [quoted |-> FALSE, title |-> None, artist |-> None, text |-> None]
    /\ p_parts = NotParsed
    /\ p_pair = NotParsed

(***************************************************************************)
(* check_if_artist_exists called on its own, on the answers an artist      *)
(* search can give for a name: artists whose name is the name looked up,   *)
(* holds it, or has nothing to do with it, of every popularity.            *)
(***************************************************************************)
ArtistNames == {"Keshi", "Keshi Band", "Ann"}
Popularities == {0, 10, 15, 16, 20, 60, 70, 80, 100}
ArtistPool ==
    {[name |-> name, id |-> name, popularity |-> popularity] :
        name \in ArtistNames, popularity \in Popularities}

NoLookup == [best |-> 0, info |-> NoneData]

AInit ==
    /\ a_query \in {"keshi"}
    /\ a_artists \in BSeq(ArtistPool, MaxArtists)
    /\ a_best = NoLookup

\* artist_info = check_if_artist_exists(artist_name, spotify)
CheckArtist ==
    /\ a_query # None
    /\ a_best = NoLookup
    /\ a_best' =
           [best |-> best_artist(a_artists, a_query, 1, [best |-> 0, highest_popularity |-> 0]).best,
            info |-> check_if_artist_exists(a_query, [client |-> TRUE, raises |-> FALSE,
                                                      artists |-> a_artists])]
    /\ UNCHANGED <<a_query, a_artists>>

ArtistIdle == a_query = None /\ a_artists = <<>> /\ a_best = NoLookup

(***************************************************************************)
(* app.py, chat(): one request from the body received to the envelope      *)
(* returned.  The session is not connected to Spotify (services/__init__   *)
(* exports no user service), so is_personalized stays False.                *)
(***************************************************************************)
\* What Spotify answers: enabled (SPOTIFY_ENABLED, a client exists), raises (every
\* call of the client fails), tracks (the answer to a track search) and artists
\* (the answer to an artist search).
SpotifyWorlds ==
    {[enabled |-> FALSE, raises |-> FALSE, tracks |-> <<>>, artists |-> <<>>],
     [enabled |-> TRUE, raises |-> TRUE, tracks |-> <<>>, artists |-> <<>>],
     [enabled |-> TRUE, raises |-> FALSE, tracks |-> <<>>, artists |-> <<>>],
     [enabled |-> TRUE, raises |-> FALSE, tracks |-> <<my_love_song, zed, blue>>,
      artists |-> <<keshi>>],
     [enabled |-> TRUE, raises |-> FALSE, tracks |-> <<love_story, zed, blue>>,
      artists |-> <<keshi>>]}

\* the client check_if_artist_exists is given
ArtistClient(world) ==
    [client |-> world.enabled, raises |-> world.raises, artists |-> world.artists]

\* What YouTube answers: enabled (YOUTUBE_ENABLED), raises, videos (data['items'])
YouTubeWorlds ==
    {[enabled |-> FALSE, raises |-> FALSE, videos |-> <<>>],
     [enabled |-> TRUE, raises |-> TRUE, videos |-> <<>>],
     [enabled |-> TRUE, raises |-> FALSE, videos |-> <<>>],
     [enabled |-> TRUE, raises |-> FALSE, videos |-> <<official_video>>]}

ChatMessages ==
    {"Who made you", "what's my name", "Love Story by Ann", "keshi songs", "sad bollywood",
     "hello"}

Bodies == [message : ChatMessages, suggested_songs : BSeq(ChatHistory, MaxMemory)]

\* extract_song_from_response on every text generate_ai_response can return
keshi_fan == [Request("artist_search", <<>>) EXCEPT !.artist_name = "Keshi"]
PossibleSongs == TrackSongs \cup Range(get_diverse_fallback_songs)
PossibleTexts ==
    AiReplies \cup
    UNION {FallbackTexts(user_request, available_songs) :
              user_request \in {Request("general", <<>>), keshi_fan},
              available_songs \in {<<>>} \cup {<<song>> : song \in PossibleSongs}}
ExtractTable == Tabulate([text \in PossibleTexts |-> extract_song_from_response(text)])

\* the catalog search on every query chat() can make of every catalog
Queries == (Range(ExtractTable) \ {None}) \cup TrackSongs
Stocks == {world.tracks : world \in SpotifyWorlds}
SearchTable ==
    Tabulate([tracks \in Stocks |->
                 Tabulate([query \in Queries |-> SearchCatalog(query, tracks)])])

\* cache_key = query.lower().strip()
CacheKey == Tabulate([query \in Queries |-> Strip(Lower(query))])

\* search_spotify_song(query): [ret, search_cache].  A query that cannot be parsed
\* returns None before anything is cached; any other result is cached, None too.
\* (every lookup of the request is made within cache_ttl of the first)
Searched(key, cache, found) ==
    IF found.parsed
    THEN [ret |-> found.result, search_cache |-> (key :> found.result) @@ cache]
    ELSE [ret |-> NoneData, search_cache |-> cache]
CachedOr(key, cache, found) ==
    IF key \in DOMAIN cache THEN [ret |-> cache[key], search_cache |-> cache]
    ELSE Searched(key, cache, found)
search_spotify_song(query, world, cache) ==
    IF ~world.enabled THEN [ret |-> NoneData, search_cache |-> cache]
    ELSE CachedOr(CacheKey[query], cache, SearchTable[world.tracks][query])

\* what the searches of a retrieval can bring together
FoundBy(world) ==
    IF world.raises THEN {<<>>} ELSE BSeq(Range(world.tracks), MaxFound)

\* creator_response, up to the emoji that close it
creator_response ==
    "My glorious queen, the most perfect, talented, amazing, successful, brilliant, genius, incredible, outstanding, phenomenal, extraordinary, magnificent, wonderful, fantastic, marvelous, spectacular, divine, legendary, iconic, flawless, unstoppable, powerful, inspiring, innovative, creative, beautiful, intelligent, wise, awesome, epic, mind-blowing, jaw-dropping, breathtaking, stunning, dazzling, radiant, celestial, goddess-tier Samia Islam!"

\* "except Exception as e": the exceptions the handler catches
Exceptions == {"AttributeError", "ZeroDivisionError"}

\* (mutant of except_Exception: the handler written for the malformed body only)
except_AttributeError(exception) == exception = "AttributeError"

except_Exception(exception) == exception \in Exceptions

\* (mutant of validation_applies: the specific song validated like any other)
validation_applies_to_all(user_request, actual_song_for_memory) ==
    actual_song_for_memory # None

\* "if actual_song_for_memory and user_request['type'] != 'specific_song'"
validation_applies(user_request, actual_song_for_memory) ==
    actual_song_for_memory # None /\ user_request.type # "specific_song"

NoCache == [songs |-> <<>>, fresh |-> FALSE]

hlocals ==
    <<h_message, h_suggested, h_request, h_available, h_original_count, h_filtered_count,
      h_ai_text, h_song_query, h_spotify_data, h_youtube_data, h_actual, h_memory_check,
      h_alternative, h_tried, h_primary>>
hvars ==
    <<h_pc, h_data, h_spotify, h_youtube, hlocals, h_search_cache, h_trending_cache,
      h_calls, h_error, h_response>>

NoLocals ==
    /\ h_message = "" /\ h_suggested = <<>> /\ h_request = NoRequest
    /\ h_available = <<>> /\ h_original_count = 0 /\ h_filtered_count = 0
    /\ h_ai_text = "" /\ h_song_query = None
    /\ h_spotify_data = NoneData /\ h_youtube_data = NoneData /\ h_actual = None
    /\ h_memory_check = None /\ h_alternative = 0 /\ h_tried = <<>> /\ h_primary = NoneData
    /\ h_search_cache = <<>> /\ h_trending_cache = NoCache
    /\ h_calls = <<>> /\ h_error = None /\ h_response = NoneData

HInit ==
    /\ h_pc = "received"
    /\ h_data \in Bodies \cup {NoneData}
    /\ h_spotify \in SpotifyWorlds
    /\ h_youtube \in YouTubeWorlds
    /\ NoLocals

ChatIdle ==
    /\ h_pc = "idle" /\ h_data = NoneData
    /\ h_spotify = [enabled |-> FALSE, raises |-> FALSE, tracks |-> <<>>, artists |-> <<>>]
    /\ h_youtube = [enabled |-> FALSE, raises |-> FALSE, videos |-> <<>>]
    /\ NoLocals

\* a call of a service function, as h_calls records it
Call(fn, arg) == [fn |-> fn, arg |-> arg]

\* an exception leaves the try block
Raise(exception) == h_pc' = "raised" /\ h_error' = exception

\* data = request.get_json() .. memory_validation = validate_memory_system(suggested_songs)
Receive ==
    /\ h_pc = "received"
    /\ IF h_data = NoneData
       THEN /\ Raise("AttributeError")
            /\ UNCHANGED <<h_message, h_suggested, h_calls>>
       ELSE /\ h_message' = h_data.message
            /\ h_suggested' = h_data.suggested_songs
            /\ h_calls' = Append(h_calls, Call("validate_memory_system", None))
            /\ h_pc' = "analyze"
            /\ UNCHANGED h_error
    /\ UNCHANGED <<h_data, h_spotify, h_youtube, h_request, h_available, h_original_count,
                   h_filtered_count, h_ai_text, h_song_query, h_spotify_data,
                   h_youtube_data, h_actual, h_memory_check, h_alternative, h_tried,
                   h_primary, h_search_cache, h_trending_cache, h_response>>

\* user_request = analyze_user_request(user_message), and the creator's early return
CreatorEnvelope(suggested_songs) ==
    [status |-> 200, response |-> creator_response, spotify |-> NoneData,
     youtube |-> NoneData,
     memory_stats |-> [songs_remembered |-> Len(suggested_songs),
                       request_type |-> "creator_request",
                       memory_working |-> TRUE, memory_active |-> TRUE],
     personalized |-> FALSE]
Analyze ==
    /\ h_pc = "analyze"
    /\ h_request' = RequestTable[h_message][ArtistClient(h_spotify)]
    /\ h_calls' = Append(h_calls, Call("analyze_user_request", h_message))
    /\ IF h_request'.type = "creator_request"
       THEN h_response' = CreatorEnvelope(h_suggested) /\ h_pc' = "done"
       ELSE h_pc' = "retrieve" /\ UNCHANGED h_response
    /\ UNCHANGED <<h_data, h_spotify, h_youtube, h_message, h_suggested, h_available,
                   h_original_count, h_filtered_count, h_ai_text, h_song_query,
                   h_spotify_data, h_youtube_data, h_actual, h_memory_check,
                   h_alternative, h_tried, h_primary, h_search_cache, h_trending_cache,
                   h_error>>

\* "Process different request types to find available songs"
Retrieve ==
    /\ h_pc = "retrieve"
    /\ \E found \in FoundBy(h_spotify) :
          IF h_request.type = "profile_request"
          THEN h_available' = <<>> /\ UNCHANGED <<h_trending_cache, h_calls>>
          ELSE IF h_request.type = "specific_song"
          THEN /\ h_available' = <<h_request.search_query>>
               /\ UNCHANGED <<h_trending_cache, h_calls>>
          ELSE IF h_request.type = "artist_search"
          THEN /\ h_available' = search_artist_songs(h_request.artist_name, h_spotify, found)
               /\ h_calls' = Append(h_calls, Call("search_artist_songs", h_request.artist_name))
               /\ UNCHANGED h_trending_cache
          ELSE IF h_request.type # "general"
          THEN /\ h_available' = search_specific_genre(h_spotify, found)
               /\ h_calls' = Append(h_calls, Call("search_specific_genre", h_request.type))
               /\ UNCHANGED h_trending_cache
          ELSE /\ h_available' = get_trending_songs(h_spotify, h_trending_cache, found).songs
               /\ h_calls' = Append(h_calls, Call("get_trending_songs", None))
               /\ h_trending_cache' =
                      get_trending_songs(h_spotify, h_trending_cache, found).trending_cache
    /\ h_pc' = "filter"
    /\ UNCHANGED <<h_data, h_spotify, h_youtube, h_message, h_suggested, h_request,
                   h_original_count, h_filtered_count, h_ai_text, h_song_query,
                   h_spotify_data, h_youtube_data, h_actual, h_memory_check,
                   h_alternative, h_tried, h_primary, h_search_cache, h_error, h_response>>

\* "Apply memory filtering to avoid repeating songs"
FilterSongs ==
    /\ h_pc = "filter"
    /\ h_original_count' = Len(h_available)
    /\ IF h_request.type = "specific_song"
       THEN /\ h_filtered_count' = Len(h_available)
            /\ h_pc' = "generate"
            /\ UNCHANGED <<h_available, h_error, h_calls>>
       ELSE IF filter_trending_songs(h_available, h_suggested).raised
       THEN /\ Raise("ZeroDivisionError")
            /\ h_calls' = Append(h_calls, Call("filter_trending_songs", None))
            /\ UNCHANGED <<h_available, h_filtered_count>>
       ELSE /\ h_available' = filter_trending_songs(h_available, h_suggested).ret
            /\ h_calls' = Append(h_calls, Call("filter_trending_songs", None))
            /\ h_filtered_count' = Len(h_available')
            /\ h_pc' = "generate"
            /\ UNCHANGED h_error
    /\ UNCHANGED <<h_data, h_spotify, h_youtube, h_message, h_suggested, h_request,
                   h_ai_text, h_song_query, h_spotify_data, h_youtube_data, h_actual,
                   h_memory_check, h_alternative, h_tried, h_primary, h_search_cache,
                   h_trending_cache, h_response>>

\* ai_text = generate_ai_response(user_message, user_request, available_songs, suggested_songs)
Generate ==
    /\ h_pc = "generate"
    /\ h_ai_text' \in generate_ai_response(h_request, h_available)
    /\ h_calls' = Append(h_calls, Call("generate_ai_response", h_message))
    /\ h_pc' = "extract"
    /\ UNCHANGED <<h_data, h_spotify, h_youtube, h_message, h_suggested, h_request,
                   h_available, h_original_count, h_filtered_count, h_song_query,
                   h_spotify_data, h_youtube_data, h_actual, h_memory_check,
                   h_alternative, h_tried, h_primary, h_search_cache, h_trending_cache,
                   h_error, h_response>>

\* chat() without the specific song's own query when the extraction fails
ExtractOnly ==
    /\ h_pc = "extract"
    /\ h_song_query' = ExtractTable[h_ai_text]
    /\ h_calls' = Append(h_calls, Call("extract_song_from_response", h_ai_text))
    /\ h_pc' = "lookup"
    /\ UNCHANGED <<h_data, h_spotify, h_youtube, h_message, h_suggested, h_request,
                   h_available, h_original_count, h_filtered_count, h_ai_text,
                   h_spotify_data, h_youtube_data, h_actual, h_memory_check,
                   h_alternative, h_tried, h_primary, h_search_cache, h_trending_cache,
                   h_error, h_response>>

\* song_query = extract_song_from_response(ai_text), and the specific song's own query
Extract ==
    /\ h_pc = "extract"
    /\ h_song_query' =
           IF h_request.type = "specific_song" /\ ExtractTable[h_ai_text] = None
           THEN h_request.search_query
           ELSE ExtractTable[h_ai_text]
    /\ h_calls' = Append(h_calls, Call("extract_song_from_response", h_ai_text))
    /\ h_pc' = "lookup"
    /\ UNCHANGED <<h_data, h_spotify, h_youtube, h_message, h_suggested, h_request,
                   h_available, h_original_count, h_filtered_count, h_ai_text,
                   h_spotify_data, h_youtube_data, h_actual, h_memory_check,
                   h_alternative, h_tried, h_primary, h_search_cache, h_trending_cache,
                   h_error, h_response>>

\* the searches made for one query: "if SPOTIFY_ENABLED:", "if YOUTUBE_ENABLED:"
SearchCalls(query, spotify_enabled, youtube_enabled) ==
    (IF spotify_enabled THEN <<Call("search_spotify_song", query)>> ELSE <<>>)
        \o (IF youtube_enabled THEN <<Call("search_youtube_song", query)>> ELSE <<>>)

\* actual_song_for_memory taken from the video whenever one was found
ActualFromVideo(spotify_data, youtube_data, actual_song_for_memory) ==
    IF youtube_data # NoneData THEN VideoDescriptor(youtube_data)
    ELSE IF spotify_data # NoneData THEN Descriptor(spotify_data)
    ELSE actual_song_for_memory

\* actual_song_for_memory after the two searches of one query
ActualOf(spotify_data, youtube_data, actual_song_for_memory) ==
    IF spotify_data # NoneData THEN Descriptor(spotify_data)
    ELSE IF youtube_data # NoneData /\ actual_song_for_memory = None
    THEN VideoDescriptor(youtube_data)
    ELSE actual_song_for_memory

\* chat() validating the extracted query against memory before it looks it up
ValidateThenLookup ==
    /\ h_pc = "lookup"
    /\ IF h_song_query # None
       THEN /\ h_spotify_data' = search_spotify_song(h_song_query, h_spotify, h_search_cache).ret
            /\ h_search_cache' =
                   search_spotify_song(h_song_query, h_spotify, h_search_cache).search_cache
            /\ h_youtube_data' = search_youtube_song(h_youtube)
            /\ h_actual' = ActualOf(h_spotify_data', h_youtube_data', None)
            /\ h_calls' = h_calls \o <<Call("validate_memory_system", h_song_query)>>
                               \o SearchCalls(h_song_query, h_spotify.enabled, h_youtube.enabled)
       ELSE UNCHANGED <<h_spotify_data, h_search_cache, h_youtube_data, h_actual, h_calls>>
    /\ h_primary' = [query |-> h_song_query, spotify |-> h_spotify_data',
                     youtube |-> h_youtube_data']
    /\ h_pc' = "fallback"
    /\ UNCHANGED <<h_data, h_spotify, h_youtube, h_message, h_suggested, h_request,
                   h_available, h_original_count, h_filtered_count, h_ai_text,
                   h_song_query, h_memory_check, h_alternative, h_tried,
                   h_trending_cache, h_error, h_response>>

\* "Search for song on both platforms if query exists"
Lookup ==
    /\ h_pc = "lookup"
    /\ IF h_song_query # None
       THEN /\ h_spotify_data' = search_spotify_song(h_song_query, h_spotify, h_search_cache).ret
            /\ h_search_cache' =
                   search_spotify_song(h_song_query, h_spotify, h_search_cache).search_cache
            /\ h_youtube_data' = search_youtube_song(h_youtube)
            /\ h_actual' = ActualOf(h_spotify_data', h_youtube_data', None)
            /\ h_calls' = h_calls \o SearchCalls(h_song_query, h_spotify.enabled, h_youtube.enabled)
       ELSE UNCHANGED <<h_spotify_data, h_search_cache, h_youtube_data, h_actual, h_calls>>
    /\ h_primary' = [query |-> h_song_query, spotify |-> h_spotify_data',
                     youtube |-> h_youtube_data']
    /\ h_pc' = "fallback"
    /\ UNCHANGED <<h_data, h_spotify, h_youtube, h_message, h_suggested, h_request,
                   h_available, h_original_count, h_filtered_count, h_ai_text,
                   h_song_query, h_memory_check, h_alternative, h_tried,
                   h_trending_cache, h_error, h_response>>

\* the fallback tried whenever the catalog found nothing, whatever the video search found
fallback_without_catalog(spotify_data, youtube_data, available_songs, request) ==
    /\ spotify_data = NoneData
    /\ available_songs # <<>> /\ request.type # "specific_song"

\* "if not spotify_data and not youtube_data and available_songs and ..."
needs_fallback(spotify_data, youtube_data, available_songs, request) ==
    /\ spotify_data = NoneData /\ youtube_data = NoneData
    /\ available_songs # <<>> /\ request.type # "specific_song"

\* "Fallback: try first available song if no results found (except for specific songs)"
FallbackLookup ==
    /\ h_pc = "fallback"
    /\ IF needs_fallback(h_spotify_data, h_youtube_data, h_available, h_request)
       THEN /\ h_spotify_data' = search_spotify_song(h_available[1], h_spotify, h_search_cache).ret
            /\ h_search_cache' =
                   search_spotify_song(h_available[1], h_spotify, h_search_cache).search_cache
            /\ h_youtube_data' = search_youtube_song(h_youtube)
            /\ h_actual' = ActualOf(h_spotify_data', h_youtube_data', h_actual)
            /\ h_calls' = h_calls \o SearchCalls(h_available[1], h_spotify.enabled, h_youtube.enabled)
       ELSE UNCHANGED <<h_spotify_data, h_search_cache, h_youtube_data, h_actual, h_calls>>
    /\ h_pc' = "validate"
    /\ UNCHANGED <<h_data, h_spotify, h_youtube, h_message, h_suggested, h_request,
                   h_available, h_original_count, h_filtered_count, h_ai_text,
                   h_song_query, h_memory_check, h_alternative, h_tried, h_primary,
                   h_trending_cache, h_error, h_response>>

\* memory_check = validate_memory_system(suggested_songs, actual_song_for_memory)
Validate ==
    /\ h_pc = "validate"
    /\ IF validation_applies(h_request, h_actual)
       THEN /\ h_memory_check' =
                   IF validate_memory_system(h_suggested, h_actual) THEN "valid" ELSE "duplicate"
            /\ h_calls' = Append(h_calls, Call("validate_memory_system", h_actual))
            /\ IF h_memory_check' = "duplicate" /\ Len(h_available) > 1
               THEN h_pc' = "alternate" /\ h_alternative' = 2
               ELSE h_pc' = "compose" /\ UNCHANGED h_alternative
       ELSE h_pc' = "compose" /\ UNCHANGED <<h_memory_check, h_alternative, h_calls>>
    /\ UNCHANGED <<h_data, h_spotify, h_youtube, h_message, h_suggested, h_request,
                   h_available, h_original_count, h_filtered_count, h_ai_text,
                   h_song_query, h_spotify_data, h_youtube_data, h_actual, h_tried,
                   h_primary, h_search_cache, h_trending_cache, h_error, h_response>>

\* one turn of "for alternative_song in available_songs[1:6]"
AlternativeValid(suggested_songs, alt_spotify) ==
    alt_spotify # NoneData /\ validate_memory_system(suggested_songs, Descriptor(alt_spotify))
AlternativeCalls(alternative_song, alt_spotify) ==
    <<Call("search_spotify_song", alternative_song)>>
        \o (IF alt_spotify # NoneData
            THEN <<Call("validate_memory_system", Descriptor(alt_spotify))>> ELSE <<>>)
\* the alternatives loop running over available_songs[1:]
EveryAlternative(available_songs) == Len(available_songs)
LastAlternative(available_songs) == IF Len(available_songs) > 6 THEN 6 ELSE Len(available_songs)
\* (mutant of Alternate: the video of the rejected pick is dropped with its track)
AlternateDroppingVideo ==
    /\ h_pc = "alternate"
    /\ h_tried' = Append(h_tried, h_available[h_alternative])
    /\ h_calls' = h_calls \o AlternativeCalls(h_available[h_alternative],
           search_spotify_song(h_available[h_alternative], h_spotify, h_search_cache).ret)
    /\ h_search_cache' =
           search_spotify_song(h_available[h_alternative], h_spotify, h_search_cache).search_cache
    /\ IF AlternativeValid(h_suggested,
              search_spotify_song(h_available[h_alternative], h_spotify, h_search_cache).ret)
       THEN /\ h_spotify_data' =
                   search_spotify_song(h_available[h_alternative], h_spotify, h_search_cache).ret
            /\ h_actual' = Descriptor(h_spotify_data')
            /\ h_youtube_data' = NoneData
            /\ h_pc' = "compose"
            /\ UNCHANGED h_alternative
       ELSE /\ UNCHANGED <<h_spotify_data, h_actual, h_youtube_data>>
            /\ IF h_alternative < LastAlternative(h_available)
               THEN h_alternative' = h_alternative + 1 /\ UNCHANGED h_pc
               ELSE h_pc' = "compose" /\ UNCHANGED h_alternative
    /\ UNCHANGED <<h_data, h_spotify, h_youtube, h_message, h_suggested, h_request,
                   h_available, h_original_count, h_filtered_count, h_ai_text,
                   h_song_query, h_memory_check, h_primary,
                   h_trending_cache, h_error, h_response>>
Alternate ==
    /\ h_pc = "alternate"
    /\ h_tried' = Append(h_tried, h_available[h_alternative])
    /\ h_calls' = h_calls \o AlternativeCalls(h_available[h_alternative],
           search_spotify_song(h_available[h_alternative], h_spotify, h_search_cache).ret)
    /\ h_search_cache' =
           search_spotify_song(h_available[h_alternative], h_spotify, h_search_cache).search_cache
    /\ IF AlternativeValid(h_suggested,
              search_spotify_song(h_available[h_alternative], h_spotify, h_search_cache).ret)
       THEN /\ h_spotify_data' =
                   search_spotify_song(h_available[h_alternative], h_spotify, h_search_cache).ret
            /\ h_actual' = Descriptor(h_spotify_data')
            /\ h_pc' = "compose"
            /\ UNCHANGED h_alternative
       ELSE /\ UNCHANGED <<h_spotify_data, h_actual>>
            /\ IF h_alternative < LastAlternative(h_available)
               THEN h_alternative' = h_alternative + 1 /\ UNCHANGED h_pc
               ELSE h_pc' = "compose" /\ UNCHANGED h_alternative
    /\ UNCHANGED <<h_data, h_spotify, h_youtube, h_message, h_suggested, h_request,
                   h_available, h_original_count, h_filtered_count, h_ai_text,
                   h_song_query, h_youtube_data, h_memory_check, h_primary,
                   h_trending_cache, h_error, h_response>>

\* memory_stats and response_data
Envelope ==
    [status |-> 200, response |-> h_ai_text, song |-> h_spotify_data,
     spotify |-> h_spotify_data, youtube |-> h_youtube_data,
     memory_stats |->
         [songs_remembered |-> Len(h_suggested),
          songs_available_before_filter |-> h_original_count,
          songs_available_after_filter |-> h_filtered_count,
          songs_filtered_out |-> IF h_original_count > h_filtered_count
                                 THEN h_original_count - h_filtered_count ELSE 0,
          request_type |-> h_request.type,
          actual_song_returned |-> h_actual,
          memory_working |-> Len(h_suggested) >= 0,
          memory_active |-> TRUE,
          search_successful |-> h_spotify_data # NoneData \/ h_youtube_data # NoneData,
          validation |-> IF h_suggested = <<>> THEN "empty" ELSE "active"],
     personalized |-> FALSE, user_id |-> None, user_preferences |-> NoneData]
Compose ==
    /\ h_pc = "compose"
    /\ h_response' = Envelope
    /\ h_pc' = "done"
    /\ UNCHANGED <<h_data, h_spotify, h_youtube, hlocals, h_search_cache, h_trending_cache,
                   h_calls, h_error>>

\* the except clause of chat(); an exception it does not catch leaves the view
ErrorEnvelope ==
    [status |-> 500, error |-> h_error,
     response |-> "Sorry, I had trouble processing your request!",
     spotify |-> NoneData, youtube |-> NoneData,
     memory_stats |-> [error |-> TRUE, message |-> "Request failed",
                       memory_working |-> FALSE, memory_active |-> FALSE]]
Except ==
    /\ h_pc = "raised"
    /\ IF except_Exception(h_error)
       THEN h_response' = ErrorEnvelope /\ h_pc' = "done"
       ELSE h_pc' = "propagated" /\ UNCHANGED h_response
    /\ UNCHANGED <<h_data, h_spotify, h_youtube, hlocals, h_search_cache, h_trending_cache,
                   h_calls, h_error>>

(***************************************************************************)
(* get_trending_songs_optimized past its cache check: the queries are      *)
(* submitted to a pool of threads and their results gathered in the order  *)
(* the futures complete.  A search answers with tracks, raises, or does    *)
(* not return.                                                             *)
(***************************************************************************)
max_workers == 6
demo == [name |-> "Demo", artist |-> "Eve", popularity |-> 30,
         preview_url |-> FALSE, explicit |-> FALSE]
SearchAnswers ==
    {[kind |-> "hangs", tracks |-> <<>>],
     [kind |-> "raises", tracks |-> <<>>],
     [kind |-> "returns", tracks |-> <<>>],
     [kind |-> "returns", tracks |-> <<love_story, zed>>],
     [kind |-> "returns", tracks |-> <<my_love_song>>],
     [kind |-> "returns", tracks |-> <<zed, demo>>]}
priority_queries == 1..MaxQueries

\* search_query(query): the descriptors of the tracks of popularity above 30, [] when
\* the search raises
search_query(answer) ==
    IF answer.kind = "raises" THEN <<>>
    ELSE DescriptorsOf(MorePopular(answer.tracks, 30))

\* "for song in songs: if song not in trending_songs: trending_songs.append(song)"
Gather(trending_songs, songs) == trending_songs \o Unique(songs, Range(trending_songs))

\* random.shuffle(trending_songs)
Shuffles(songs) ==
    {[k \in DOMAIN songs |-> songs[order[k]]] : order \in Permutations(DOMAIN songs)}

TInit ==
    /\ t_pc = "submit"
    /\ t_answer \in [priority_queries -> SearchAnswers]
    /\ t_future = [query \in priority_queries |-> "new"]
    /\ t_pending = {}
    /\ t_songs = <<>>
    /\ t_ret = <<>>

\* futures = [executor.submit(search_query, query) for query in priority_queries]
Submit ==
    /\ t_pc = "submit"
    /\ t_future' = [query \in priority_queries |-> "queued"]
    /\ t_pending' = priority_queries
    /\ t_pc' = "collect"
    /\ UNCHANGED <<t_answer, t_songs, t_ret>>

\* a thread of the pool takes a queued search
Start ==
    \E query \in priority_queries :
        /\ t_future[query] = "queued"
        /\ Cardinality({other \in priority_queries : t_future[other] = "running"}) < max_workers
        /\ t_future' = [t_future EXCEPT ![query] = "running"]
        /\ UNCHANGED <<t_pc, t_answer, t_pending, t_songs, t_ret>>

\* search_query returns (its own except clause included); a search that does not
\* return keeps its thread
Finish ==
    \E query \in priority_queries :
        /\ t_future[query] = "running"
        /\ t_answer[query].kind # "hangs"
        /\ t_future' = [t_future EXCEPT ![query] = "done"]
        /\ UNCHANGED <<t_pc, t_answer, t_pending, t_songs, t_ret>>

\* one turn of "for future in as_completed(futures)": a completed future is
\* yielded, its songs are gathered, the loop ends at 150 songs or with the futures
Collect ==
    \E query \in t_pending :
        /\ t_pc = "collect"
        /\ t_future[query] = "done"
        /\ t_songs' = Gather(t_songs, search_query(t_answer[query]))
        /\ t_pending' = t_pending \ {query}
        /\ t_pc' = IF Len(t_songs') >= EnoughSongs \/ t_pending' = {}
                   THEN "shutdown" ELSE "collect"
        /\ UNCHANGED <<t_answer, t_future, t_ret>>

\* the end of the with block (the pool joins its threads), then the shuffle and
\* the cache of the first 100
Shutdown ==
    /\ t_pc = "shutdown"
    /\ \A query \in priority_queries : t_future[query] = "done"
    /\ \E shuffled \in Shuffles(t_songs) : t_ret' = Limit(shuffled, 100)
    /\ t_pc' = "returned"
    /\ UNCHANGED <<t_answer, t_future, t_pending, t_songs>>

FanoutIdle ==
    /\ t_pc = "idle" /\ t_answer = <<>> /\ t_future = <<>>
    /\ t_pending = {} /\ t_songs = <<>> /\ t_ret = <<>>

(***************************************************************************)
(* search_spotify_song called again and again, by any request, while the   *)
(* clock runs and the catalog fails and recovers.                          *)
(***************************************************************************)
cache_ttl == 1800
steady == [enabled |-> TRUE, raises |-> FALSE, tracks |-> <<love_story, zed, blue>>,
           artists |-> <<keshi>>]
failing == [enabled |-> TRUE, raises |-> TRUE, tracks |-> <<>>, artists |-> <<>>]
SongQueries == {Descriptor(love_story), Descriptor(zed)}

\* "if current_time - cached_time < cache_ttl": the entries a lookup is served from
Unexpired(cache, current_time) ==
    [key \in {k \in DOMAIN cache : current_time - cache[k].time < cache_ttl} |->
        cache[key].result]

SInit ==
    /\ s_catalog \in {steady, failing}
    /\ s_now = 0
    /\ s_cache = <<>>
    /\ s_last = NoneData

\* search_spotify_song(query) at current_time; uncached is what the search past
\* the cache check gives at that moment
LookupSong ==
    \E query \in SongQueries :
        /\ s_last' =
               [query |-> query,
                ret |-> search_spotify_song(query, s_catalog, Unexpired(s_cache, s_now)).ret,
                uncached |-> search_spotify_song(query, s_catalog, <<>>).ret,
                hit |-> CacheKey[query] \in DOMAIN Unexpired(s_cache, s_now)]
        /\ s_cache' =
               IF CacheKey[query] \in DOMAIN Unexpired(s_cache, s_now)
               THEN s_cache
               ELSE [key \in DOMAIN search_spotify_song(query, s_catalog, <<>>).search_cache |->
                        [result |-> search_spotify_song(query, s_catalog, <<>>).search_cache[key],
                         time |-> s_now]] @@ s_cache
        /\ UNCHANGED <<s_catalog, s_now>>

\* a quarter of an hour passes
Tick ==
    /\ s_now < MaxTicks * 900
    /\ s_now' = s_now + 900
    /\ UNCHANGED <<s_catalog, s_cache, s_last>>

\* the calls of the client start to fail, and work again
Outage ==
    /\ s_catalog = steady
    /\ s_catalog' = failing
    /\ UNCHANGED <<s_now, s_cache, s_last>>
Recovery ==
    /\ s_catalog = failing
    /\ s_catalog' = steady
    /\ UNCHANGED <<s_now, s_cache, s_last>>

CacheIdle == s_catalog = NoneData /\ s_now = 0 /\ s_cache = <<>> /\ s_last = NoneData

vars == <<fvars, cvars, hvars, pvars, avars, tvars, svars>>

FilterInit == FInit /\ ClassifyIdle /\ ChatIdle /\ ParseIdle /\ ArtistIdle /\ FanoutIdle /\ CacheIdle
FilterNext ==
    \/ FilterCall /\ UNCHANGED <<cvars, hvars, pvars, avars, tvars, svars>>
    \/ FilterAgain /\ UNCHANGED <<cvars, hvars, pvars, avars, tvars, svars>>
SpecFilter == FilterInit /\ [][FilterNext]_vars

ClassifyInit == CInit /\ FilterIdle /\ ChatIdle /\ ParseIdle /\ ArtistIdle /\ FanoutIdle /\ CacheIdle
ClassifyNext == AnalyzeCall /\ UNCHANGED <<fvars, hvars, pvars, avars, tvars, svars>>
SpecClassify == ClassifyInit /\ [][ClassifyNext]_vars

ChatInit == HInit /\ FilterIdle /\ ClassifyIdle /\ ParseIdle /\ ArtistIdle /\ FanoutIdle /\ CacheIdle
ChatNext ==
    \/ Receive /\ UNCHANGED <<fvars, cvars, pvars, avars, tvars, svars>>
    \/ Analyze /\ UNCHANGED <<fvars, cvars, pvars, avars, tvars, svars>>
    \/ Retrieve /\ UNCHANGED <<fvars, cvars, pvars, avars, tvars, svars>>
    \/ FilterSongs /\ UNCHANGED <<fvars, cvars, pvars, avars, tvars, svars>>
    \/ Generate /\ UNCHANGED <<fvars, cvars, pvars, avars, tvars, svars>>
    \/ Extract /\ UNCHANGED <<fvars, cvars, pvars, avars, tvars, svars>>
    \/ Lookup /\ UNCHANGED <<fvars, cvars, pvars, avars, tvars, svars>>
    \/ FallbackLookup /\ UNCHANGED <<fvars, cvars, pvars, avars, tvars, svars>>
    \/ Validate /\ UNCHANGED <<fvars, cvars, pvars, avars, tvars, svars>>
    \/ Alternate /\ UNCHANGED <<fvars, cvars, pvars, avars, tvars, svars>>
    \/ Compose /\ UNCHANGED <<fvars, cvars, pvars, avars, tvars, svars>>
    \/ Except /\ UNCHANGED <<fvars, cvars, pvars, avars, tvars, svars>>
SpecChat == ChatInit /\ [][ChatNext]_vars
\* the server runs the view to its return statement
SpecChatServed == SpecChat /\ WF_vars(ChatNext)

ParseInit == PInit /\ FilterIdle /\ ClassifyIdle /\ ChatIdle /\ ArtistIdle /\ FanoutIdle /\ CacheIdle
ParseNext ==
    \/ ExtractParts /\ UNCHANGED <<fvars, cvars, hvars, avars, tvars, svars>>
    \/ ExtractSongAndArtist /\ UNCHANGED <<fvars, cvars, hvars, avars, tvars, svars>>
SpecParse == ParseInit /\ [][ParseNext]_vars

ArtistInit == AInit /\ FilterIdle /\ ClassifyIdle /\ ChatIdle /\ ParseIdle /\ FanoutIdle /\ CacheIdle
ArtistNext == CheckArtist /\ UNCHANGED <<fvars, cvars, hvars, pvars, tvars, svars>>
SpecArtist == ArtistInit /\ [][ArtistNext]_vars

FanoutInit ==
    TInit /\ FilterIdle /\ ClassifyIdle /\ ChatIdle /\ ParseIdle /\ ArtistIdle /\ CacheIdle
FanoutNext ==
    \/ Submit /\ UNCHANGED <<fvars, cvars, hvars, pvars, avars, svars>>
    \/ Start /\ UNCHANGED <<fvars, cvars, hvars, pvars, avars, svars>>
    \/ Finish /\ UNCHANGED <<fvars, cvars, hvars, pvars, avars, svars>>
    \/ Collect /\ UNCHANGED <<fvars, cvars, hvars, pvars, avars, svars>>
    \/ Shutdown /\ UNCHANGED <<fvars, cvars, hvars, pvars, avars, svars>>
SpecFanout == FanoutInit /\ [][FanoutNext]_vars
\* the threads and the loop run whenever they can
SpecFanoutServed == SpecFanout /\ WF_vars(FanoutNext)

CacheInit ==
    SInit /\ FilterIdle /\ ClassifyIdle /\ ChatIdle /\ ParseIdle /\ ArtistIdle /\ FanoutIdle
CacheNext ==
    \/ LookupSong /\ UNCHANGED <<fvars, cvars, hvars, pvars, avars, tvars>>
    \/ Tick /\ UNCHANGED <<fvars, cvars, hvars, pvars, avars, tvars>>
    \/ Outage /\ UNCHANGED <<fvars, cvars, hvars, pvars, avars, tvars>>
    \/ Recovery /\ UNCHANGED <<fvars, cvars, hvars, pvars, avars, tvars>>
SpecCache == CacheInit /\ [][CacheNext]_vars

(***************************************************************************)
(* Properties of the memory filter (checked under SpecFilter).             *)
(***************************************************************************)
Returned == f_pc = "filtered" /\ ~f_out.raised

\* The three rules of the Memory Filter, stated on the parser's results:
\* equal after normalization; parsed titles substrings of one another;
\* identical parsed artist and a shared title word.
Rule1(c, h) == Entry(c).full_normalized = Entry(h).full_normalized
Rule2(c, h) == \/ IsSubstr(Entry(c).song_name, Entry(h).song_name)
               \/ IsSubstr(Entry(h).song_name, Entry(c).song_name)
Rule3(c, h) == /\ Entry(c).artist_name # ""
               /\ Entry(c).artist_name = Entry(h).artist_name
               /\ Entry(c).name_words \cap Entry(h).name_words # {}
FuzzyMatch(c, h) == Rule1(c, h) \/ Rule2(c, h) \/ Rule3(c, h)
MatchesHistory(c, history) == \E n \in 1..Len(history) : FuzzyMatch(c, history[n])

\* C4: with a non-empty history, when the filter returns without taking the
\* degenerate fallback, no returned element matches any history entry under
\* rule 1, rule 2 or rule 3.
C4_ExclusionHolds ==
    (Returned /\ f_in.suggested_songs # <<>> /\ ~f_out.fallback)
        => \A i \in 1..Len(f_out.ret) : ~MatchesHistory(f_out.ret[i], f_in.suggested_songs)

\* C4 witness: a call that dropped a candidate and kept another
C4_Witness ==
    /\ Returned /\ f_in.suggested_songs # <<>> /\ ~f_out.fallback
    /\ Len(f_out.ret) >= 1
    /\ Len(f_out.ret) < Len(f_in.trending_songs)

AllMatch == \A i \in 1..Len(f_in.trending_songs) :
                MatchesHistory(f_in.trending_songs[i], f_in.suggested_songs)

\* the last five elements of a list (all of it when shorter), in order
Tail5(l) == [i \in 1..(IF Len(l) > 5 THEN 5 ELSE Len(l)) |->
               l[i + (IF Len(l) > 5 THEN Len(l) - 5 ELSE 0)]]

\* C5 as stated: if every candidate matches some history entry, the filter
\* returns exactly the last 5 candidates, and never an empty list.
C5_AsStated ==
    (f_pc = "filtered" /\ AllMatch)
        => /\ ~f_out.raised
           /\ f_out.ret = Tail5(f_in.trending_songs)
           /\ f_out.ret # <<>>

\* C5 (amended): for a non-empty candidate list of which every element
\* matches some history entry, the filter returns exactly the last 5
\* candidates (all when fewer than 5), in order, and not an empty list.
C5_DegenerateFallback ==
    (f_pc = "filtered" /\ AllMatch /\ f_in.trending_songs # <<>>)
        => /\ ~f_out.raised
           /\ f_out.ret = Tail5(f_in.trending_songs)
           /\ f_out.ret # <<>>

\* C5 witness: more than five candidates, all matching, so that the last five
\* differ from the whole list and from the first five
C5_Witness ==
    /\ Returned /\ AllMatch
    /\ Len(f_in.trending_songs) > 5
    /\ f_in.trending_songs[1] # f_in.trending_songs[6]
    /\ Len(f_out.ret) = 5

\* C6: with an empty history the filter returns the candidate list
\* unchanged (same elements, order and length), the empty list included.
C6_EmptyHistoryNoOp ==
    (f_pc = "filtered" /\ f_in.suggested_songs = <<>>)
        => ~f_out.raised /\ f_out.ret = f_in.trending_songs

\* C6 witness: the call was made with an empty history and several candidates
C6_Witness ==
    /\ Returned /\ f_in.suggested_songs = <<>>
    /\ Len(f_out.ret) >= 2

\* sub is l with some elements left out, the others in their order
RECURSIVE IsSubsequence(_, _)
IsSubsequence(sub, l) ==
    IF sub = <<>> THEN TRUE
    ELSE IF l = <<>> THEN FALSE
    ELSE IF Head(sub) = Head(l) THEN IsSubsequence(Tail(sub), Tail(l))
    ELSE IsSubsequence(sub, Tail(l))

\* C7: the list the filter returns is a subsequence of the candidates in
\* their original order, and after the call the candidate list and the
\* history hold exactly the elements they held before.
C7_OrderAndFrame ==
    (f_pc = "filtered")
        => /\ f_trending = f_in.trending_songs
           /\ f_suggested = f_in.suggested_songs
           /\ (~f_out.raised => IsSubsequence(f_out.ret, f_in.trending_songs))

\* C7 witness: a call that kept two candidates and dropped one between them
C7_Witness ==
    /\ Returned /\ ~f_out.fallback
    /\ Len(f_in.trending_songs) >= 3
    /\ Len(f_out.ret) = 2
    /\ f_out.ret[1] = f_in.trending_songs[1]
    /\ f_out.ret[2] = f_in.trending_songs[3]
    /\ f_out.ret[1] # f_out.ret[2]

(***************************************************************************)
(* Properties of the classifier (checked under SpecClassify).              *)
(***************************************************************************)
\* What each of the eight rules returns for a message when taken alone, in the
\* order profile phrases, creator phrases, specific-song patterns, explicit
\* artist patterns, dynamic artist detection, mood x region combinations,
\* single categories, general default; NoRequest where the rule does not fire.
RuleResults(user_message, message_lower, spotify) ==
    <<IF AnyIn(profile_patterns, message_lower)
          THEN Request("profile_request", <<>>) ELSE NoRequest,
      IF AnyIn(creator_patterns, message_lower)
          THEN Request("creator_request", <<>>) ELSE NoRequest,
      specific_song_request(message_lower),
      explicit_artist_request(message_lower, spotify),
      dynamic_artist_request(user_message, spotify),
      combination_request(message_lower),
      FirstRule(category_rules,
                {i \in DOMAIN category_rules : AnyIn(category_rules[i].words, message_lower)}),
      Request("general", general_terms)>>

RuleTable ==
    Tabulate([m \in Messages |->
                 Tabulate([spotify \in SpotifyClients |-> RuleResults(m, Lower(m), spotify)])])

Analyzed == c_pc = "analyzed"
Fires(i) == RuleTable[c_message][c_spotify][i].type # None
FirstFiring == Min({i \in 1..8 : Fires(i)})

\* C9: the classifier returns the result of the first rule that fires, in the
\* order profile, creator, specific song, explicit artist, dynamic artist,
\* combination, single category, general: no later rule's result is returned
\* when an earlier rule fires.
C9_RuleOrder ==
    Analyzed => c_request = RuleTable[c_message][c_spotify][FirstFiring]

\* C9 witness: the creator phrases and the specific-song pattern both match
\* ("who made you by hand") and the creator request is returned
C9_Witness ==
    /\ Analyzed /\ ~Fires(1) /\ Fires(2) /\ Fires(3)
    /\ c_request.type = "creator_request"

\* the combination rules whose mood keyword and region keyword the message holds
Combinations ==
    {i \in DOMAIN combination_rules :
         /\ AnyIn(combination_rules[i].mood, Lower(c_message))
         /\ AnyIn(combination_rules[i].region, Lower(c_message))}
NoneOfRules1To5 == \A i \in 1..5 : ~Fires(i)
StandaloneTypes == {category_rules[i].type : i \in DOMAIN category_rules}

\* C10 as stated: a message that fires none of rules 1-5 and holds both keywords
\* of a combination rule is given that combination's category.
C10_AsStated ==
    (Analyzed /\ NoneOfRules1To5)
        => \A i \in Combinations : c_request.type = combination_rules[i].type

\* C10 (amended): a message that fires none of rules 1-5 and holds both keywords
\* of some combination rule is given the category of the first such combination
\* in the classifier's order, and never a standalone mood or region category.
C10_CombinationFirst ==
    (Analyzed /\ NoneOfRules1To5 /\ Combinations # {})
        => /\ c_request.type = combination_rules[Min(Combinations)].type
           /\ c_request.type \notin StandaloneTypes

\* C10 witness: "sad bollywood" classified as sad_bollywood, while the standalone
\* rules sad and hindi_bollywood match it as well
C10_Witness ==
    /\ Analyzed /\ NoneOfRules1To5
    /\ c_message = "sad bollywood"
    /\ c_request.type = "sad_bollywood"
    /\ Fires(7)

\* the names the classifier asks the artist search about: the names its artist
\* patterns capture and keep, and the whole message when it may name an artist
ArtistQueries(user_message) ==
    {n \in Range(artist_pattern_names(Lower(user_message))) : valid_artist_name(n)}
        \cup (IF is_potential_artist_query(user_message) THEN {Strip(user_message)} ELSE {})
QueryTable == Tabulate([m \in Messages |-> ArtistQueries(m)])
\* the index of the artist the search of c_spotify scores highest for a name
Chosen(query) ==
    best_artist(c_spotify.artists, query, 1, [best |-> 0, highest_popularity |-> 0]).best
AtOrBelowFloor(query) ==
    \A b \in {Chosen(query)} : b = 0 \/ c_spotify.artists[b].popularity <= 15
OtherRules == {1, 2, 3, 6, 7, 8}

\* C11: every artist_search request carries the name and id of an artist of the
\* search whose popularity is above 15; and when the artist chosen for each name
\* the classifier looks up has a popularity of 15 or less, the request is not an
\* artist_search but the result of the first of the other rules that fires.
C11_PopularityFloor ==
    Analyzed =>
        /\ c_request.type = "artist_search" =>
               \E i \in DOMAIN c_spotify.artists :
                   /\ c_spotify.artists[i].name = c_request.artist_name
                   /\ c_spotify.artists[i].id = c_request.artist_id
                   /\ c_spotify.artists[i].popularity > 15
        /\ (\A q \in QueryTable[c_message] : AtOrBelowFloor(q)) =>
               /\ c_request.type # "artist_search"
               /\ c_request = RuleTable[c_message][c_spotify][Min({i \in OtherRules : Fires(i)})]

\* C11 witness: "keshi songs" where the search chooses an artist of popularity 10
\* for "keshi" (a more popular artist scoring lower), classified as general
C11_Witness ==
    /\ Analyzed /\ c_message = "keshi songs"
    /\ \E q \in QueryTable[c_message] :
           /\ Chosen(q) # 0
           /\ c_spotify.artists[Chosen(q)].popularity = 10
           /\ \E i \in DOMAIN c_spotify.artists : c_spotify.artists[i].popularity > 15
    /\ c_request.type = "general"

\* C12: a message "songs by X" or "give me songs by X", X being an artist the
\* search verifies above the floor, is classified artist_search with the name and
\* the id the search gives for X.
C12_SongsByArtist ==
    (/\ Analyzed
     /\ c_message \in {"songs by keshi", "give me songs by keshi"}
     /\ check_if_artist_exists("keshi", c_spotify).found)
        => /\ c_request.type = "artist_search"
           /\ c_request.artist_name = check_if_artist_exists("keshi", c_spotify).name
           /\ c_request.artist_id = check_if_artist_exists("keshi", c_spotify).id

\* the artist search is not configured, raises, or answers with no artist
Unavailable(client) == ~client.client \/ client.raises \/ client.artists = <<>>

\* C23: when the artist search is unavailable, raises or finds nothing, the
\* classifier still returns a request, never an artist_search: the result of
\* the first of the other rules that fires, which is one of the combination,
\* single-category and general rules whenever none of rules 1-3 fires; the
\* request is the same whichever of the three ways the search failed.
C23_FallsThrough ==
    (Analyzed /\ Unavailable(c_spotify)) =>
        /\ c_request.type \notin {None, "artist_search"}
        /\ c_request = RuleTable[c_message][c_spotify][Min({i \in OtherRules : Fires(i)})]
        /\ (\A i \in 1..3 : ~Fires(i)) =>
               c_request = RuleTable[c_message][c_spotify][Min({i \in 6..8 : Fires(i)})]
        /\ \A other \in SpotifyClients :
               Unavailable(other) => c_request = RequestTable[c_message][other]

\* C23 witness: the search raises while "keshi sad bollywood" is analysed, a
\* message the dynamic detection looks up; the combination rule answers
C23_Witness ==
    /\ Analyzed /\ c_spotify.raises
    /\ c_message = "keshi sad bollywood"
    /\ QueryTable[c_message] # {}
    /\ c_request.type = "sad_bollywood"

(***************************************************************************)
(* chat(): what the envelope of a request says about the history sent      *)
(* with it.                                                                *)
(***************************************************************************)
\* a request chat() has answered from its try block with a track envelope
Served == h_pc = "done" /\ h_error = None /\ h_request.type # "creator_request"
Exempt == h_request.type = "specific_song"
ReturnedSong == h_response.memory_stats.actual_song_returned

\* C1: for a request whose kind is not specific_song, the track reported as
\* actually returned (memory_stats.actual_song_returned) matches no entry of the
\* history sent with the request under rules 1-3 of the memory filter.
C1_NeverRepeats ==
    (Served /\ ~Exempt /\ ReturnedSong # None)
        => ~MatchesHistory(ReturnedSong, h_suggested)

\* the fields every envelope of chat() carries
EnvelopeFields == {"response", "spotify", "youtube", "memory_stats"}
Apology == "Sorry, I had trouble processing your request!"

\* C2: whatever the catalog, the video search, the classifier's artist lookup and
\* the text generator do, chat() lets no exception leave it and every request
\* ends with an envelope that carries response, spotify, youtube and
\* memory_stats; after an exception inside the try block the envelope holds the
\* fixed apology text, null spotify and youtube and memory_stats.error = true.
WellFormed ==
    /\ h_pc # "propagated"
    /\ h_pc = "done"
           => /\ h_response # NoneData
              /\ EnvelopeFields \subseteq DOMAIN h_response
              /\ h_response.response # ""
    /\ (h_pc = "done" /\ h_error # None)
           => /\ h_response.response = Apology
              /\ h_response.spotify = NoneData /\ h_response.youtube = NoneData
              /\ h_response.memory_stats.error = TRUE
C2_AlwaysEnvelope == []WellFormed /\ <>(h_pc = "done")

\* C2 witness: a request with a history whose retrieval came back empty; the
\* filter divides by zero and the except clause answers with the apology
C2_Witness ==
    /\ h_pc = "done" /\ h_error = "ZeroDivisionError"
    /\ h_suggested # <<>> /\ h_available = <<>>
    /\ h_response = ErrorEnvelope

TrackValidations == {n \in DOMAIN h_calls : /\ h_calls[n].fn = "validate_memory_system"
                                            /\ h_calls[n].arg # None}
FilterCalls == {n \in DOMAIN h_calls : h_calls[n].fn = "filter_trending_songs"}
CatalogLookups == {n \in DOMAIN h_calls : h_calls[n].fn = "search_spotify_song"}
\* the query chat() looks up for a specific song: the one extracted from the
\* generated text, the request's own search_query only when nothing is extracted
LookedUp ==
    IF ExtractTable[h_ai_text] = None THEN h_request.search_query
    ELSE ExtractTable[h_ai_text]
SpecificUntouched ==
    /\ FilterCalls = {} /\ TrackValidations = {}
    /\ h_tried = <<>> /\ h_pc # "alternate"
    /\ Served => /\ h_available = <<h_request.search_query>>
                 /\ h_response.spotify = h_primary.spotify
                 /\ h_response.youtube = h_primary.youtube
                 /\ ReturnedSong = ActualOf(h_primary.spotify, h_primary.youtube, None)
                 /\ \A n \in CatalogLookups : h_calls[n].arg = h_primary.query

\* C3 as stated: for a specific_song request the list is not filtered, the track
\* is neither validated nor replaced, and the track in the envelope is the one
\* the catalog finds for the request's search_query.
C3_AsStated ==
    Exempt => /\ SpecificUntouched
              /\ Served => h_response.spotify =
                               search_spotify_song(h_request.search_query, h_spotify, <<>>).ret

\* C3 (amended): for a specific_song request, whatever the history holds, the
\* list is not passed to filter_trending_songs, no track is validated against
\* the history and no alternate is tried; the envelope carries what the first
\* lookup found, and that lookup is made for the query extracted from the
\* generated text, for the request's search_query only when nothing is extracted.
C3_SpecificExempt ==
    Exempt => /\ SpecificUntouched
              /\ Served => h_primary.query = LookedUp

\* C3 witness: a specific song answered with the track the history already holds
C3_Witness ==
    /\ Served /\ Exempt
    /\ h_suggested # <<>>
    /\ h_response.spotify # NoneData
    /\ ReturnedSong = h_suggested[1]
    /\ MatchesHistory(ReturnedSong, h_suggested)

\* the track of the first lookup, and the candidates that could stand in for it
FirstPick == ActualOf(h_primary.spotify, h_primary.youtube, None)
Alternates == {n \in DOMAIN h_available : h_available[n] # FirstPick}
Fresh == {n \in Alternates : ~MatchesHistory(h_available[n], h_suggested)}

\* C8: when the track extracted and looked up matches the history, at least two
\* alternate candidates exist and at least one of them does not match the
\* history, the track returned is the first alternate that does not match.
C8_FirstFreshAlternate ==
    (/\ Served /\ ~Exempt
     /\ FirstPick # None
     /\ MatchesHistory(FirstPick, h_suggested)
     /\ Cardinality(Alternates) >= 2 /\ Fresh # {})
        => ReturnedSong = h_available[Min(Fresh)]

BeforePunct(artist) ==
    IF \E i \in 1..Len(artist) : Chr(artist, i) \in {".", "!", "?", ",", "-"}
    THEN SubSeq(artist, 1, Min({i \in 1..Len(artist) :
                                   Chr(artist, i) \in {".", "!", "?", ",", "-"}}) - 1)
    ELSE artist

Checked == a_best # NoLookup
IsExact(i) == Lower(a_artists[i].name) = Lower(a_query)
IsPartial(i) ==
    /\ ~IsExact(i)
    /\ \/ IsSubstr(Lower(a_query), Lower(a_artists[i].name))
       \/ IsSubstr(Lower(a_artists[i].name), Lower(a_query))
Score(i) ==
    a_artists[i].popularity + (IF IsExact(i) THEN 100 ELSE IF IsPartial(i) THEN 50 ELSE 0)
Listed == DOMAIN a_artists
TopScored == {i \in Listed : \A j \in Listed : Score(j) <= Score(i)}
Exacts == {i \in Listed : IsExact(i)}
Partials == {i \in Listed : IsPartial(i)}

C13_EmptyRetrievalPropagates ==
    (FilterCalls # {} /\ h_original_count = 0)
        => /\ h_error = None
           /\ h_available = <<>>
           /\ h_pc = "done" => /\ h_response.status = 200
                               /\ h_response.memory_stats.songs_available_after_filter = 0

\* the media lookups among the calls of a request
MediaLookups ==
    {n \in DOMAIN h_calls : h_calls[n].fn \in {"search_spotify_song", "search_youtube_song"}}
\* the stage a call belongs to, the lookups and the validations of tracks
\* together in the last
StageOf(call) ==
    IF call.fn = "analyze_user_request" THEN 1
    ELSE IF call.fn \in {"search_artist_songs", "search_specific_genre", "get_trending_songs"}
    THEN 2
    ELSE IF call.fn = "filter_trending_songs" THEN 3
    ELSE IF call.fn = "generate_ai_response" THEN 4
    ELSE IF call.fn = "extract_song_from_response" THEN 5
    ELSE IF call.fn \in {"search_spotify_song", "search_youtube_song"} THEN 6
    ELSE IF call.fn = "validate_memory_system" /\ call.arg # None THEN 6
    ELSE 0
InStageOrder ==
    \A i, j \in DOMAIN h_calls : i < j => StageOf(h_calls[i]) <= StageOf(h_calls[j])
StagesOf(I) == {StageOf(h_calls[n]) : n \in I}

\* C15 as stated: the calls of a request are made in the order classification,
\* retrieval, memory filter, text generation, extraction, validation against
\* memory, media lookup: the first validation of a track precedes every media
\* lookup.
C15_AsStated ==
    /\ InStageOrder
    /\ TrackValidations # {} => \A l \in MediaLookups : Min(TrackValidations) < l

\* C15 (amended): the calls of a request are made in the order classification,
\* retrieval, memory filter, text generation, extraction, media lookup,
\* validation against memory, alternates: every validation of a track follows
\* a media lookup, alternates are tried only after a validation found a
\* duplicate, and a request served past the classification has gone through
\* classification, text generation and extraction (through the memory filter
\* too unless it asks for a specific song).
C15_LookupBeforeValidation ==
    /\ InStageOrder
    /\ TrackValidations # {} =>
           MediaLookups # {} /\ Min(MediaLookups) < Min(TrackValidations)
    /\ h_tried # <<>> => TrackValidations # {} /\ h_memory_check = "duplicate"
    /\ Served => /\ {1, 4, 5} \subseteq StagesOf(DOMAIN h_calls)
                 /\ ~Exempt => 3 \in StagesOf(DOMAIN h_calls)

\* C15 witness: a request served after a lookup, a validation that found a
\* duplicate and an alternate, every stage being in its call log
C15_Witness ==
    /\ Served
    /\ h_tried # <<>>
    /\ StagesOf(DOMAIN h_calls) = {0, 1, 2, 3, 4, 5, 6}
    /\ Min(MediaLookups) < Min(TrackValidations)

\* C16: the validation of the looked-up track reports a duplicate exactly when
\* the memory filter would drop that track against the same history (rule 1,
\* rule 2 or rule 3).
C16_ValidationRefinesFilter ==
    (h_memory_check # None /\ h_tried = <<>>)
        => (h_memory_check = "duplicate" <=> MatchesHistory(h_actual, h_suggested))

\* the track the validation was called on, and the calls made after it (the
\* alternatives loop)
Validated == h_calls[Min(TrackValidations)].arg
AlternativeLog == SubSeq(h_calls, Min(TrackValidations) + 1, Len(h_calls))
IsLookup(call) == call.fn = "search_spotify_song"
IsCheck(call) == call.fn = "validate_memory_system"
Args(calls) == [n \in DOMAIN calls |-> calls[n].arg]
Passes(song) == validate_memory_system(h_suggested, song)
Accepted(checks) == checks # <<>> /\ Passes(checks[Len(checks)].arg)
Finished == h_pc \in {"compose", "done"}

LookupLog ==
    SelectSeq(IF TrackValidations = {} THEN h_calls
              ELSE SubSeq(h_calls, 1, Min(TrackValidations) - 1), IsLookup)
PastLookups ==
    h_pc \in {"validate", "alternate", "compose", "done"} /\ h_error = None /\ h_primary # NoneData
PrimaryFailed == h_primary.query # None /\ h_primary.spotify = NoneData
CanRetry == h_spotify.enabled /\ ~Exempt /\ h_available # <<>>
\* what the catalog answers for the first candidate
RetryResult ==
    IF SearchTable[h_spotify.tracks][h_available[1]].parsed
    THEN SearchTable[h_spotify.tracks][h_available[1]].result ELSE NoneData
NoAlternate ==
    \/ h_tried = <<>>
    \/ TrackValidations # {} /\ ~Accepted(SelectSeq(AlternativeLog, IsCheck))

\* C18 as stated: whenever the catalog lookup of the extracted query fails, the
\* kind is not specific_song and a candidate is available, the catalog is asked
\* again for the first candidate, whether or not the video search succeeded for
\* the extracted query.
C18_AsStated ==
    (PastLookups /\ PrimaryFailed /\ CanRetry)
        => Args(LookupLog) = <<h_primary.query, h_available[1]>>

\* C18 (amended): the catalog is asked again, for the first candidate, exactly
\* when the kind is not specific_song, a candidate is available and neither the
\* catalog nor the video search found anything for the extracted query (or no
\* query was extracted); a track found by the retry is the track validated and,
\* unless an alternate replaces it, the track of the envelope.  When the video
\* search succeeded for the extracted query no retry is made: the video stands
\* and, unless an alternate is accepted, the envelope has no catalog track.
C18_RetryWhenNothingFound ==
    (PastLookups /\ h_spotify.enabled) =>
        /\ Args(LookupLog) =
               (IF h_primary.query # None THEN <<h_primary.query>> ELSE <<>>)
                   \o (IF /\ h_primary.spotify = NoneData /\ h_primary.youtube = NoneData
                           /\ ~Exempt /\ h_available # <<>>
                        THEN <<h_available[1]>> ELSE <<>>)
        /\ (Len(LookupLog) = 2 \/ (h_primary.query = None /\ Len(LookupLog) = 1)) =>
               /\ (RetryResult # NoneData /\ h_pc # "validate") =>
                      TrackValidations # {} /\ Validated = Descriptor(RetryResult)
               /\ NoAlternate => h_spotify_data = RetryResult
               /\ (NoAlternate /\ h_pc = "done") => h_response.spotify = RetryResult
        /\ (PrimaryFailed /\ h_primary.youtube # NoneData) =>
               /\ h_youtube_data = h_primary.youtube
               /\ NoAlternate => h_spotify_data = NoneData
               /\ (NoAlternate /\ h_pc = "done") => h_response.spotify = NoneData

\* C18 witness: the extracted query found neither in the catalog nor as a video,
\* the first candidate found by the retry and returned
C18_Witness ==
    /\ Served /\ PrimaryFailed /\ h_primary.youtube = NoneData /\ CanRetry
    /\ Args(LookupLog) = <<h_primary.query, h_available[1]>>
    /\ h_primary.query # h_available[1]
    /\ h_response.spotify # NoneData
    /\ h_response.spotify = RetryResult

\* C19: in every envelope of a request served past the classification,
\* actual_song_returned is '<name>' by <artist> of the catalog track when the
\* envelope has one, otherwise '<title>' by <channel> of its video, and it is
\* null exactly when the envelope has neither, which is when search_successful
\* is false.
C19_ReturnedDescriptor ==
    Served =>
        /\ ReturnedSong =
               IF h_response.spotify # NoneData THEN Descriptor(h_response.spotify)
               ELSE IF h_response.youtube # NoneData THEN VideoDescriptor(h_response.youtube)
               ELSE None
        /\ ReturnedSong = None
               <=> (h_response.spotify = NoneData /\ h_response.youtube = NoneData)
        /\ h_response.memory_stats.search_successful <=> ReturnedSong # None

\* C19 witness: an envelope whose catalog track comes from an accepted alternate
\* and whose video comes from the first lookup; the descriptor is the track's
C19_Witness ==
    /\ Served /\ h_tried # <<>>
    /\ h_response.spotify # NoneData /\ h_response.youtube # NoneData
    /\ h_primary.spotify = NoneData
    /\ ReturnedSong = Descriptor(h_response.spotify)
    /\ ReturnedSong # VideoDescriptor(h_response.youtube)

\* nothing could be extracted from the generated text
ExtractionFailed == ExtractTable[h_ai_text] = None
NullTracks ==
    /\ h_response.spotify = NoneData /\ h_response.youtube = NoneData
    /\ ReturnedSong = None

\* C20 as stated: when nothing can be extracted from the generated text, a
\* specific_song request looks up its own search_query, and a request of any
\* other kind makes no media lookup at all and ends with null track fields.
C20_AsStated ==
    (PastLookups /\ ExtractionFailed) =>
        /\ Exempt => h_primary.query = h_request.search_query
        /\ ~Exempt => /\ MediaLookups = {}
                      /\ h_pc = "done" => NullTracks

\* C20 (amended): when nothing can be extracted from the generated text, a
\* specific_song request looks up its own search_query and nothing else; a
\* request of any other kind looks up its first candidate when it has one, and
\* only without a candidate makes no media lookup and ends with null track
\* fields.
C20_FirstCandidateInstead ==
    (PastLookups /\ ExtractionFailed) =>
        /\ Exempt =>
               /\ h_primary.query = h_request.search_query
               /\ \A n \in MediaLookups : h_calls[n].arg = h_request.search_query
               /\ h_spotify.enabled => Len(LookupLog) = 1
        /\ ~Exempt =>
               /\ h_primary.query = None
               /\ h_spotify.enabled =>
                      Args(LookupLog) = IF h_available # <<>> THEN <<h_available[1]>> ELSE <<>>
               /\ h_available = <<>> =>
                      /\ MediaLookups = {}
                      /\ h_pc = "done" => NullTracks
               /\ (h_available # <<>> /\ h_pc = "done" /\ NoAlternate) =>
                      /\ h_response.spotify = (IF h_spotify.enabled THEN RetryResult ELSE NoneData)
                      /\ h_response.youtube = search_youtube_song(h_youtube)

\* C20 witness: a request that is not for a specific song, whose text names no
\* track, served with the catalog track of its first candidate
C20_Witness ==
    /\ Served /\ ExtractionFailed /\ ~Exempt
    /\ h_available # <<>>
    /\ Args(LookupLog) = <<h_available[1]>>
    /\ h_response.spotify # NoneData
    /\ ReturnedSong = Descriptor(h_response.spotify)

\* the text was built locally, the language model having failed
AiFailed == h_error = None /\ h_ai_text \in FallbackTexts(h_request, h_available)
\* the candidates the local text can be naming, and the fixed tracks of
\* no_songs_responses
NamedCandidates ==
    {n \in DOMAIN h_available : h_ai_text \in FallbackTexts(h_request, <<h_available[n]>>)}
evergreen_tracks ==
    {"'As It Was' by Harry Styles", "'Anti-Hero' by Taylor Swift", "'Flowers' by Miley Cyrus",
     "'Unholy' by Sam Smith", "'Bad Habit' by Steve Lacy"}

\* C21: when the language model fails, the text built locally names one of the
\* candidates left after the memory filter or, without a candidate, one of the
\* fixed tracks, and the track it names matches no entry of the history.
C21_FallbackRespectsHistory ==
    AiFailed =>
        IF h_available # <<>>
        THEN /\ NamedCandidates # {}
             /\ \A n \in NamedCandidates : ~MatchesHistory(h_available[n], h_suggested)
        ELSE h_request.type # "artist_search" =>
                 \E e \in evergreen_tracks :
                     IsSubstr(e, h_ai_text) /\ ~MatchesHistory(e, h_suggested)

\* the category retrieval has just returned
CategoryRetrieved ==
    /\ h_pc = "filter"
    /\ h_calls # <<>> /\ h_calls[Len(h_calls)].fn = "search_specific_genre"

\* C24: the list the category retrieval returns holds at most 20 descriptors and
\* no descriptor twice.
C24_NoDuplicateCandidates ==
    CategoryRetrieved =>
        /\ Len(h_available) <= 20
        /\ \A i, j \in DOMAIN h_available : i # j => h_available[i] # h_available[j]

(***************************************************************************)
(* Properties of the trending refresh (checked under SpecFanout, and under *)
(* SpecFanoutServed where the refresh is to come to its end).              *)
(***************************************************************************)
\* C25: whatever a search does (answer, fail or never return), the refresh comes
\* to its end and returns the songs of the other searches.
C25_RefreshReturns == <>(t_pc = "returned")

\* the refresh with the futures completing in the given order
RECURSIVE GatherIn(_, _, _)
GatherIn(order, answers, songs) ==
    IF order = <<>> \/ Len(songs) >= EnoughSongs THEN songs
    ELSE GatherIn(Tail(order), answers, Gather(songs, search_query(answers[Head(order)])))
InSubmissionOrder == [query \in priority_queries |-> query]

\* C26: the songs the refresh returns are, as a set, those it returns when the
\* futures complete in the order they were submitted in: the order of completion
\* does not show in the set.
C26_SameSetInEveryOrder ==
    t_pc = "returned" => Range(t_ret) = Range(GatherIn(InSubmissionOrder, t_answer, <<>>))

(***************************************************************************)
(* Properties of the search cache (checked under SpecCache).               *)
(***************************************************************************)
\* C27: every lookup returns what the same lookup returns without the cache.
C27_CacheTransparent == s_last # NoneData => s_last.ret = s_last.uncached

(***************************************************************************)
(* More properties of the memory filter (checked under SpecFilter).        *)
(***************************************************************************)
\* a descriptor the parser splits into a title and an artist
Parsed(song) == Entry(song).artist_name # ""

\* the loop over the history stops at entry n on its second strategy
DroppedByRule2(c, history, n) ==
    /\ \A m \in 1..(n - 1) : ~FuzzyMatch(c, history[m])
    /\ ~Rule1(c, history[n])
    /\ Rule2(c, history[n])

\* C28: a candidate the filter drops through rule 2 has a by-separator, and so has
\* the history entry it was dropped for.
C28_Rule2NeedsBothParsed ==
    Returned =>
        \A i \in DOMAIN f_in.trending_songs, n \in DOMAIN f_in.suggested_songs :
            (/\ f_in.trending_songs[i] \notin Range(f_out.ret)
             /\ DroppedByRule2(f_in.trending_songs[i], f_in.suggested_songs, n))
            => Parsed(f_in.trending_songs[i]) /\ Parsed(f_in.suggested_songs[n])

\* C29: a non-empty candidate list filtered, and the result filtered again against
\* the same history, gives the result of the first call, whether or not that call
\* took the degenerate fallback.
C29_FilterIdempotent ==
    (f_pc = "refiltered" /\ f_in.trending_songs # <<>>)
        => ~f_again.raised /\ f_again.ret = f_out.ret
C29_Witness ==
    /\ f_pc = "refiltered" /\ f_in.trending_songs # <<>>
    /\ f_out.fallback
    /\ Len(f_in.trending_songs) > Len(f_out.ret)
    /\ f_again.ret = f_out.ret

(***************************************************************************)
(* What the alternatives loop leaves alone (checked under SpecChat).       *)
(***************************************************************************)
\* the turn of the loop just taken ended on a track that passed the validation
JustAccepted(calls) == IsCheck(calls[Len(calls)]) /\ Passes(calls[Len(calls)].arg)

\* C30: a turn of the alternatives loop that accepts a track changes, of what the
\* envelope is made of, the catalog track and actual_song_returned only; a turn
\* that accepts none changes nothing of it; and the envelope returned after the
\* loop is made of those values: its text and its video are the ones the request
\* had when the validation rejected its pick.
C30_AlternationFrame ==
    /\ [][h_pc = "alternate" =>
              /\ Envelope' = [Envelope EXCEPT !.song = h_spotify_data',
                                              !.spotify = h_spotify_data',
                                              !.memory_stats.actual_song_returned = h_actual']
              /\ ~JustAccepted(h_calls') => Envelope' = Envelope]_vars
    /\ []((h_pc = "done" /\ h_tried # <<>>) => h_error = None /\ h_response = Envelope)

\* C30 witness: served with the track of an accepted alternate and the video found
\* for the pick the validation rejected
C30_Witness ==
    /\ Served /\ h_tried # <<>>
    /\ JustAccepted(h_calls)
    /\ h_response.spotify # h_primary.spotify
    /\ h_response.youtube # NoneData
    /\ h_response.memory_stats.actual_song_returned # Validated

====
